---- MODULE Spec2Model ----
(***************************************************************************)
(* Room state and synchronisation engine of the watch-party backend        *)
(* (src/server.js): the room registry, the drift-compensated sync clock,   *)
(* the socket event handlers, the two room HTTP endpoints and the          *)
(* heartbeat timer.                                                        *)
(*                                                                         *)
(* Representation.                                                         *)
(*  - A JavaScript string is a sequence of one-character strings, so that  *)
(*    trim, toUpperCase, slice and the room-code regular expression are    *)
(*    computed character by character.  undefined and "" are both <<>>     *)
(*    (both are falsy, and String(undefined || "") is "").                 *)
(*  - Date.now() is the variable now, in milliseconds.  A handler runs at  *)
(*    one clock reading.                                                   *)
(*  - Play-head positions (currentTime) are seconds carried in fixed       *)
(*    point, in thousandths of a second, so that the elapsed term          *)
(*    (Date.now() - lastUpdatedAt) / 1000 of getSyncedTime is exact.       *)
(*  - socket.io: adapterRooms[s] is the set of rooms socket s has joined   *)
(*    (socket.join), sockData[s] is socket.data, and every emit of a       *)
(*    handler is appended to out with the set of sockets it reaches.       *)
(***************************************************************************)
EXTENDS Integers, Sequences, FiniteSets, TLC

VARIABLES
    rooms,        \* the Map rooms: [keys: insertion order, val: code -> state]
    sockData,     \* socket.data of every socket: [roomCode, username]
    adapterRooms, \* socket.io rooms each socket has joined
    connected,    \* whether the socket is still connected
    now,          \* Date.now(), ms
    nextBeat,     \* earliest time the heartbeat timer fires next
    out,          \* emits of the last handler, in order
    res,          \* HTTP response of the last handler
    ev,           \* the last handler that ran: [type, sock, room, arg]
    lastSync,     \* history: per room, the last event that wrote the play head
    chatSent,     \* history: per room, every chat message ever accepted
    nCreated,     \* history: number of 201 responses of POST /api/rooms/create
    nEvents       \* history: number of steps (handlers run, clock ticks) so far

vars == <<rooms, sockData, adapterRooms, connected, now, nextBeat, out, res, ev,
          lastSync, chatSent, nCreated, nEvents>>

----------------------------------------------------------------------------
(* Program constants *)

ROOM_CODE_LENGTH == 6

ROOM_CHARSET ==
    << "A","B","C","D","E","F","G","H","J","K","L","M","N","P","Q","R",
       "S","T","U","V","W","X","Y","Z","2","3","4","5","6","7","8","9" >>

SYNC_BROADCAST_INTERVAL_MS == 2500

\* attempts of getUniqueRoomCode
MAX_CODE_ATTEMPTS == 1000

\* chat log cap, chat entries of a join snapshot, chat text cap
CHAT_LOG_MAX == 200

CHAT_SNAPSHOT == 50

CHAT_TEXT_MAX == 500

DEFAULT_VIDEO_ID == << "d","Q","w","4","w","9","W","g","X","c","Q" >>

----------------------------------------------------------------------------
(* Bounds of the model *)

\* the length of one clock tick in ms
TickMs == 2500

\* steps of Spec: handlers run (HTTP requests, socket events, heartbeats)
\* and clock ticks
MaxEvents == 5

\* chat messages sent in the sequential-chat scenario SpecChat
MaxScenarioChat == 250

\* steps of the two-room scenario SpecRooms
MaxRoomEvents == 6

Sockets == {"s1", "s2"}

----------------------------------------------------------------------------
(* JavaScript strings *)

LOWER == << "a","b","c","d","e","f","g","h","i","j","k","l","m",
            "n","o","p","q","r","s","t","u","v","w","x","y","z" >>

UPPER == << "A","B","C","D","E","F","G","H","I","J","K","L","M",
            "N","O","P","Q","R","S","T","U","V","W","X","Y","Z" >>

DIGITS == << "0","1","2","3","4","5","6","7","8","9" >>

Range(f) == { f[i] : i \in DOMAIN f }

\* A string is the sequence of its UTF-16 code units.  An ASCII character
\* is written as itself; a code unit outside ASCII (and the vertical tab) is
\* written as its name, "U+" and four hexadecimal digits: "U+00DF" is the
\* one character sharp s.

\* WhiteSpace and LineTerminator of ECMAScript, which String.prototype.trim
\* removes
WhiteSpace ==
    { " ", "\t", "\n", "\r", "\f", "U+000B", "U+00A0", "U+1680",
      "U+2000", "U+2001", "U+2002", "U+2003", "U+2004", "U+2005", "U+2006",
      "U+2007", "U+2008", "U+2009", "U+200A", "U+2028", "U+2029", "U+202F",
      "U+205F", "U+3000", "U+FEFF" }

IsSpace(c) == c \in WhiteSpace

RECURSIVE TrimStart(_)
TrimStart(s) ==
    IF s # <<>> /\ IsSpace(Head(s)) THEN TrimStart(Tail(s)) ELSE s

RECURSIVE TrimEnd(_)
TrimEnd(s) ==
    IF s # <<>> /\ IsSpace(s[Len(s)]) THEN TrimEnd(SubSeq(s, 1, Len(s) - 1)) ELSE s

\* String.prototype.trim
Trim(s) == TrimEnd(TrimStart(s))

\* The cased letters outside ASCII: CASED_LOWER[i] is a code unit of the BMP
\* that toUpperCase changes, CASED_UPPER[i] the code units it becomes
\* (SpecialCasing included: sharp s is "SS", U+0149 is U+02BC "N").
CASED_LOWER ==
    << "U+00B5", "U+00DF", "U+00E0", "U+00E1", "U+00E2", "U+00E3", "U+00E4",
       "U+00E5", "U+00E6", "U+00E7", "U+00E8", "U+00E9", "U+00EA", "U+00EB",
       "U+00EC", "U+00ED", "U+00EE", "U+00EF", "U+00F0", "U+00F1", "U+00F2",
       "U+00F3", "U+00F4", "U+00F5", "U+00F6", "U+00F8", "U+00F9", "U+00FA",
       "U+00FB", "U+00FC", "U+00FD", "U+00FE", "U+00FF", "U+0101", "U+0103",
       "U+0105", "U+0107", "U+0109", "U+010B", "U+010D", "U+010F", "U+0111",
       "U+0113", "U+0115", "U+0117", "U+0119", "U+011B", "U+011D", "U+011F",
       "U+0121", "U+0123", "U+0125", "U+0127", "U+0129", "U+012B", "U+012D",
       "U+012F", "U+0131", "U+0133", "U+0135", "U+0137", "U+013A", "U+013C",
       "U+013E", "U+0140", "U+0142", "U+0144", "U+0146", "U+0148", "U+0149",
       "U+014B", "U+014D", "U+014F", "U+0151", "U+0153", "U+0155", "U+0157",
       "U+0159", "U+015B", "U+015D", "U+015F", "U+0161", "U+0163", "U+0165",
       "U+0167", "U+0169", "U+016B", "U+016D", "U+016F", "U+0171", "U+0173",
       "U+0175", "U+0177", "U+017A", "U+017C", "U+017E", "U+017F", "U+0180",
       "U+0183", "U+0185", "U+0188", "U+018C", "U+0192", "U+0195", "U+0199",
       "U+019A", "U+019B", "U+019E", "U+01A1", "U+01A3", "U+01A5", "U+01A8",
       "U+01AD", "U+01B0", "U+01B4", "U+01B6", "U+01B9", "U+01BD", "U+01BF",
       "U+01C5", "U+01C6", "U+01C8", "U+01C9", "U+01CB", "U+01CC", "U+01CE",
       "U+01D0", "U+01D2", "U+01D4", "U+01D6", "U+01D8", "U+01DA", "U+01DC",
       "U+01DD", "U+01DF", "U+01E1", "U+01E3", "U+01E5", "U+01E7", "U+01E9",
       "U+01EB", "U+01ED", "U+01EF", "U+01F0", "U+01F2", "U+01F3", "U+01F5",
       "U+01F9", "U+01FB", "U+01FD", "U+01FF", "U+0201", "U+0203", "U+0205",
       "U+0207", "U+0209", "U+020B", "U+020D", "U+020F", "U+0211", "U+0213",
       "U+0215", "U+0217", "U+0219", "U+021B", "U+021D", "U+021F", "U+0223",
       "U+0225", "U+0227", "U+0229", "U+022B", "U+022D", "U+022F", "U+0231",
       "U+0233", "U+023C", "U+023F", "U+0240", "U+0242", "U+0247", "U+0249",
       "U+024B", "U+024D", "U+024F", "U+0250", "U+0251", "U+0252", "U+0253",
       "U+0254", "U+0256", "U+0257", "U+0259", "U+025B", "U+025C", "U+0260",
       "U+0261", "U+0263", "U+0264", "U+0265", "U+0266", "U+0268", "U+0269",
       "U+026A", "U+026B", "U+026C", "U+026F", "U+0271", "U+0272", "U+0275",
       "U+027D", "U+0280", "U+0282", "U+0283", "U+0287", "U+0288", "U+0289",
       "U+028A", "U+028B", "U+028C", "U+0292", "U+029D", "U+029E", "U+0345",
       "U+0371", "U+0373", "U+0377", "U+037B", "U+037C", "U+037D", "U+0390",
       "U+03AC", "U+03AD", "U+03AE", "U+03AF", "U+03B0", "U+03B1", "U+03B2",
       "U+03B3", "U+03B4", "U+03B5", "U+03B6", "U+03B7", "U+03B8", "U+03B9",
       "U+03BA", "U+03BB", "U+03BC", "U+03BD", "U+03BE", "U+03BF", "U+03C0",
       "U+03C1", "U+03C2", "U+03C3", "U+03C4", "U+03C5", "U+03C6", "U+03C7",
       "U+03C8", "U+03C9", "U+03CA", "U+03CB", "U+03CC", "U+03CD", "U+03CE",
       "U+03D0", "U+03D1", "U+03D5", "U+03D6", "U+03D7", "U+03D9", "U+03DB",
       "U+03DD", "U+03DF", "U+03E1", "U+03E3", "U+03E5", "U+03E7", "U+03E9",
       "U+03EB", "U+03ED", "U+03EF", "U+03F0", "U+03F1", "U+03F2", "U+03F3",
       "U+03F5", "U+03F8", "U+03FB", "U+0430", "U+0431", "U+0432", "U+0433",
       "U+0434", "U+0435", "U+0436", "U+0437", "U+0438", "U+0439", "U+043A",
       "U+043B", "U+043C", "U+043D", "U+043E", "U+043F", "U+0440", "U+0441",
       "U+0442", "U+0443", "U+0444", "U+0445", "U+0446", "U+0447", "U+0448",
       "U+0449", "U+044A", "U+044B", "U+044C", "U+044D", "U+044E", "U+044F",
       "U+0450", "U+0451", "U+0452", "U+0453", "U+0454", "U+0455", "U+0456",
       "U+0457", "U+0458", "U+0459", "U+045A", "U+045B", "U+045C", "U+045D",
       "U+045E", "U+045F", "U+0461", "U+0463", "U+0465", "U+0467", "U+0469",
       "U+046B", "U+046D", "U+046F", "U+0471", "U+0473", "U+0475", "U+0477",
       "U+0479", "U+047B", "U+047D", "U+047F", "U+0481", "U+048B", "U+048D",
       "U+048F", "U+0491", "U+0493", "U+0495", "U+0497", "U+0499", "U+049B",
       "U+049D", "U+049F", "U+04A1", "U+04A3", "U+04A5", "U+04A7", "U+04A9",
       "U+04AB", "U+04AD", "U+04AF", "U+04B1", "U+04B3", "U+04B5", "U+04B7",
       "U+04B9", "U+04BB", "U+04BD", "U+04BF", "U+04C2", "U+04C4", "U+04C6",
       "U+04C8", "U+04CA", "U+04CC", "U+04CE", "U+04CF", "U+04D1", "U+04D3",
       "U+04D5", "U+04D7", "U+04D9", "U+04DB", "U+04DD", "U+04DF", "U+04E1",
       "U+04E3", "U+04E5", "U+04E7", "U+04E9", "U+04EB", "U+04ED", "U+04EF",
       "U+04F1", "U+04F3", "U+04F5", "U+04F7", "U+04F9", "U+04FB", "U+04FD",
       "U+04FF", "U+0501", "U+0503", "U+0505", "U+0507", "U+0509", "U+050B",
       "U+050D", "U+050F", "U+0511", "U+0513", "U+0515", "U+0517", "U+0519",
       "U+051B", "U+051D", "U+051F", "U+0521", "U+0523", "U+0525", "U+0527",
       "U+0529", "U+052B", "U+052D", "U+052F", "U+0561", "U+0562", "U+0563",
       "U+0564", "U+0565", "U+0566", "U+0567", "U+0568", "U+0569", "U+056A",
       "U+056B", "U+056C", "U+056D", "U+056E", "U+056F", "U+0570", "U+0571",
       "U+0572", "U+0573", "U+0574", "U+0575", "U+0576", "U+0577", "U+0578",
       "U+0579", "U+057A", "U+057B", "U+057C", "U+057D", "U+057E", "U+057F",
       "U+0580", "U+0581", "U+0582", "U+0583", "U+0584", "U+0585", "U+0586",
       "U+0587", "U+10D0", "U+10D1", "U+10D2", "U+10D3", "U+10D4", "U+10D5",
       "U+10D6", "U+10D7", "U+10D8", "U+10D9", "U+10DA", "U+10DB", "U+10DC",
       "U+10DD", "U+10DE", "U+10DF", "U+10E0", "U+10E1", "U+10E2", "U+10E3",
       "U+10E4", "U+10E5", "U+10E6", "U+10E7", "U+10E8", "U+10E9", "U+10EA",
       "U+10EB", "U+10EC", "U+10ED", "U+10EE", "U+10EF", "U+10F0", "U+10F1",
       "U+10F2", "U+10F3", "U+10F4", "U+10F5", "U+10F6", "U+10F7", "U+10F8",
       "U+10F9", "U+10FA", "U+10FD", "U+10FE", "U+10FF", "U+13F8", "U+13F9",
       "U+13FA", "U+13FB", "U+13FC", "U+13FD", "U+1C80", "U+1C81", "U+1C82",
       "U+1C83", "U+1C84", "U+1C85", "U+1C86", "U+1C87", "U+1C88", "U+1C8A",
       "U+1D79", "U+1D7D", "U+1D8E", "U+1E01", "U+1E03", "U+1E05", "U+1E07",
       "U+1E09", "U+1E0B", "U+1E0D", "U+1E0F", "U+1E11", "U+1E13", "U+1E15",
       "U+1E17", "U+1E19", "U+1E1B", "U+1E1D", "U+1E1F", "U+1E21", "U+1E23",
       "U+1E25", "U+1E27", "U+1E29", "U+1E2B", "U+1E2D", "U+1E2F", "U+1E31",
       "U+1E33", "U+1E35", "U+1E37", "U+1E39", "U+1E3B", "U+1E3D", "U+1E3F",
       "U+1E41", "U+1E43", "U+1E45", "U+1E47", "U+1E49", "U+1E4B", "U+1E4D",
       "U+1E4F", "U+1E51", "U+1E53", "U+1E55", "U+1E57", "U+1E59", "U+1E5B",
       "U+1E5D", "U+1E5F", "U+1E61", "U+1E63", "U+1E65", "U+1E67", "U+1E69",
       "U+1E6B", "U+1E6D", "U+1E6F", "U+1E71", "U+1E73", "U+1E75", "U+1E77",
       "U+1E79", "U+1E7B", "U+1E7D", "U+1E7F", "U+1E81", "U+1E83", "U+1E85",
       "U+1E87", "U+1E89", "U+1E8B", "U+1E8D", "U+1E8F", "U+1E91", "U+1E93",
       "U+1E95", "U+1E96", "U+1E97", "U+1E98", "U+1E99", "U+1E9A", "U+1E9B",
       "U+1EA1", "U+1EA3", "U+1EA5", "U+1EA7", "U+1EA9", "U+1EAB", "U+1EAD",
       "U+1EAF", "U+1EB1", "U+1EB3", "U+1EB5", "U+1EB7", "U+1EB9", "U+1EBB",
       "U+1EBD", "U+1EBF", "U+1EC1", "U+1EC3", "U+1EC5", "U+1EC7", "U+1EC9",
       "U+1ECB", "U+1ECD", "U+1ECF", "U+1ED1", "U+1ED3", "U+1ED5", "U+1ED7",
       "U+1ED9", "U+1EDB", "U+1EDD", "U+1EDF", "U+1EE1", "U+1EE3", "U+1EE5",
       "U+1EE7", "U+1EE9", "U+1EEB", "U+1EED", "U+1EEF", "U+1EF1", "U+1EF3",
       "U+1EF5", "U+1EF7", "U+1EF9", "U+1EFB", "U+1EFD", "U+1EFF", "U+1F00",
       "U+1F01", "U+1F02", "U+1F03", "U+1F04", "U+1F05", "U+1F06", "U+1F07",
       "U+1F10", "U+1F11", "U+1F12", "U+1F13", "U+1F14", "U+1F15", "U+1F20",
       "U+1F21", "U+1F22", "U+1F23", "U+1F24", "U+1F25", "U+1F26", "U+1F27",
       "U+1F30", "U+1F31", "U+1F32", "U+1F33", "U+1F34", "U+1F35", "U+1F36",
       "U+1F37", "U+1F40", "U+1F41", "U+1F42", "U+1F43", "U+1F44", "U+1F45",
       "U+1F50", "U+1F51", "U+1F52", "U+1F53", "U+1F54", "U+1F55", "U+1F56",
       "U+1F57", "U+1F60", "U+1F61", "U+1F62", "U+1F63", "U+1F64", "U+1F65",
       "U+1F66", "U+1F67", "U+1F70", "U+1F71", "U+1F72", "U+1F73", "U+1F74",
       "U+1F75", "U+1F76", "U+1F77", "U+1F78", "U+1F79", "U+1F7A", "U+1F7B",
       "U+1F7C", "U+1F7D", "U+1F80", "U+1F81", "U+1F82", "U+1F83", "U+1F84",
       "U+1F85", "U+1F86", "U+1F87", "U+1F88", "U+1F89", "U+1F8A", "U+1F8B",
       "U+1F8C", "U+1F8D", "U+1F8E", "U+1F8F", "U+1F90", "U+1F91", "U+1F92",
       "U+1F93", "U+1F94", "U+1F95", "U+1F96", "U+1F97", "U+1F98", "U+1F99",
       "U+1F9A", "U+1F9B", "U+1F9C", "U+1F9D", "U+1F9E", "U+1F9F", "U+1FA0",
       "U+1FA1", "U+1FA2", "U+1FA3", "U+1FA4", "U+1FA5", "U+1FA6", "U+1FA7",
       "U+1FA8", "U+1FA9", "U+1FAA", "U+1FAB", "U+1FAC", "U+1FAD", "U+1FAE",
       "U+1FAF", "U+1FB0", "U+1FB1", "U+1FB2", "U+1FB3", "U+1FB4", "U+1FB6",
       "U+1FB7", "U+1FBC", "U+1FBE", "U+1FC2", "U+1FC3", "U+1FC4", "U+1FC6",
       "U+1FC7", "U+1FCC", "U+1FD0", "U+1FD1", "U+1FD2", "U+1FD3", "U+1FD6",
       "U+1FD7", "U+1FE0", "U+1FE1", "U+1FE2", "U+1FE3", "U+1FE4", "U+1FE5",
       "U+1FE6", "U+1FE7", "U+1FF2", "U+1FF3", "U+1FF4", "U+1FF6", "U+1FF7",
       "U+1FFC", "U+214E", "U+2170", "U+2171", "U+2172", "U+2173", "U+2174",
       "U+2175", "U+2176", "U+2177", "U+2178", "U+2179", "U+217A", "U+217B",
       "U+217C", "U+217D", "U+217E", "U+217F", "U+2184", "U+24D0", "U+24D1",
       "U+24D2", "U+24D3", "U+24D4", "U+24D5", "U+24D6", "U+24D7", "U+24D8",
       "U+24D9", "U+24DA", "U+24DB", "U+24DC", "U+24DD", "U+24DE", "U+24DF",
       "U+24E0", "U+24E1", "U+24E2", "U+24E3", "U+24E4", "U+24E5", "U+24E6",
       "U+24E7", "U+24E8", "U+24E9", "U+2C30", "U+2C31", "U+2C32", "U+2C33",
       "U+2C34", "U+2C35", "U+2C36", "U+2C37", "U+2C38", "U+2C39", "U+2C3A",
       "U+2C3B", "U+2C3C", "U+2C3D", "U+2C3E", "U+2C3F", "U+2C40", "U+2C41",
       "U+2C42", "U+2C43", "U+2C44", "U+2C45", "U+2C46", "U+2C47", "U+2C48",
       "U+2C49", "U+2C4A", "U+2C4B", "U+2C4C", "U+2C4D", "U+2C4E", "U+2C4F",
       "U+2C50", "U+2C51", "U+2C52", "U+2C53", "U+2C54", "U+2C55", "U+2C56",
       "U+2C57", "U+2C58", "U+2C59", "U+2C5A", "U+2C5B", "U+2C5C", "U+2C5D",
       "U+2C5E", "U+2C5F", "U+2C61", "U+2C65", "U+2C66", "U+2C68", "U+2C6A",
       "U+2C6C", "U+2C73", "U+2C76", "U+2C81", "U+2C83", "U+2C85", "U+2C87",
       "U+2C89", "U+2C8B", "U+2C8D", "U+2C8F", "U+2C91", "U+2C93", "U+2C95",
       "U+2C97", "U+2C99", "U+2C9B", "U+2C9D", "U+2C9F", "U+2CA1", "U+2CA3",
       "U+2CA5", "U+2CA7", "U+2CA9", "U+2CAB", "U+2CAD", "U+2CAF", "U+2CB1",
       "U+2CB3", "U+2CB5", "U+2CB7", "U+2CB9", "U+2CBB", "U+2CBD", "U+2CBF",
       "U+2CC1", "U+2CC3", "U+2CC5", "U+2CC7", "U+2CC9", "U+2CCB", "U+2CCD",
       "U+2CCF", "U+2CD1", "U+2CD3", "U+2CD5", "U+2CD7", "U+2CD9", "U+2CDB",
       "U+2CDD", "U+2CDF", "U+2CE1", "U+2CE3", "U+2CEC", "U+2CEE", "U+2CF3",
       "U+2D00", "U+2D01", "U+2D02", "U+2D03", "U+2D04", "U+2D05", "U+2D06",
       "U+2D07", "U+2D08", "U+2D09", "U+2D0A", "U+2D0B", "U+2D0C", "U+2D0D",
       "U+2D0E", "U+2D0F", "U+2D10", "U+2D11", "U+2D12", "U+2D13", "U+2D14",
       "U+2D15", "U+2D16", "U+2D17", "U+2D18", "U+2D19", "U+2D1A", "U+2D1B",
       "U+2D1C", "U+2D1D", "U+2D1E", "U+2D1F", "U+2D20", "U+2D21", "U+2D22",
       "U+2D23", "U+2D24", "U+2D25", "U+2D27", "U+2D2D", "U+A641", "U+A643",
       "U+A645", "U+A647", "U+A649", "U+A64B", "U+A64D", "U+A64F", "U+A651",
       "U+A653", "U+A655", "U+A657", "U+A659", "U+A65B", "U+A65D", "U+A65F",
       "U+A661", "U+A663", "U+A665", "U+A667", "U+A669", "U+A66B", "U+A66D",
       "U+A681", "U+A683", "U+A685", "U+A687", "U+A689", "U+A68B", "U+A68D",
       "U+A68F", "U+A691", "U+A693", "U+A695", "U+A697", "U+A699", "U+A69B",
       "U+A723", "U+A725", "U+A727", "U+A729", "U+A72B", "U+A72D", "U+A72F",
       "U+A733", "U+A735", "U+A737", "U+A739", "U+A73B", "U+A73D", "U+A73F",
       "U+A741", "U+A743", "U+A745", "U+A747", "U+A749", "U+A74B", "U+A74D",
       "U+A74F", "U+A751", "U+A753", "U+A755", "U+A757", "U+A759", "U+A75B",
       "U+A75D", "U+A75F", "U+A761", "U+A763", "U+A765", "U+A767", "U+A769",
       "U+A76B", "U+A76D", "U+A76F", "U+A77A", "U+A77C", "U+A77F", "U+A781",
       "U+A783", "U+A785", "U+A787", "U+A78C", "U+A791", "U+A793", "U+A794",
       "U+A797", "U+A799", "U+A79B", "U+A79D", "U+A79F", "U+A7A1", "U+A7A3",
       "U+A7A5", "U+A7A7", "U+A7A9", "U+A7B5", "U+A7B7", "U+A7B9", "U+A7BB",
       "U+A7BD", "U+A7BF", "U+A7C1", "U+A7C3", "U+A7C8", "U+A7CA", "U+A7CD",
       "U+A7CF", "U+A7D1", "U+A7D3", "U+A7D5", "U+A7D7", "U+A7D9", "U+A7DB",
       "U+A7F6", "U+AB53", "U+AB70", "U+AB71", "U+AB72", "U+AB73", "U+AB74",
       "U+AB75", "U+AB76", "U+AB77", "U+AB78", "U+AB79", "U+AB7A", "U+AB7B",
       "U+AB7C", "U+AB7D", "U+AB7E", "U+AB7F", "U+AB80", "U+AB81", "U+AB82",
       "U+AB83", "U+AB84", "U+AB85", "U+AB86", "U+AB87", "U+AB88", "U+AB89",
       "U+AB8A", "U+AB8B", "U+AB8C", "U+AB8D", "U+AB8E", "U+AB8F", "U+AB90",
       "U+AB91", "U+AB92", "U+AB93", "U+AB94", "U+AB95", "U+AB96", "U+AB97",
       "U+AB98", "U+AB99", "U+AB9A", "U+AB9B", "U+AB9C", "U+AB9D", "U+AB9E",
       "U+AB9F", "U+ABA0", "U+ABA1", "U+ABA2", "U+ABA3", "U+ABA4", "U+ABA5",
       "U+ABA6", "U+ABA7", "U+ABA8", "U+ABA9", "U+ABAA", "U+ABAB", "U+ABAC",
       "U+ABAD", "U+ABAE", "U+ABAF", "U+ABB0", "U+ABB1", "U+ABB2", "U+ABB3",
       "U+ABB4", "U+ABB5", "U+ABB6", "U+ABB7", "U+ABB8", "U+ABB9", "U+ABBA",
       "U+ABBB", "U+ABBC", "U+ABBD", "U+ABBE", "U+ABBF", "U+FB00", "U+FB01",
       "U+FB02", "U+FB03", "U+FB04", "U+FB05", "U+FB06", "U+FB13", "U+FB14",
       "U+FB15", "U+FB16", "U+FB17", "U+FF41", "U+FF42", "U+FF43", "U+FF44",
       "U+FF45", "U+FF46", "U+FF47", "U+FF48", "U+FF49", "U+FF4A", "U+FF4B",
       "U+FF4C", "U+FF4D", "U+FF4E", "U+FF4F", "U+FF50", "U+FF51", "U+FF52",
       "U+FF53", "U+FF54", "U+FF55", "U+FF56", "U+FF57", "U+FF58", "U+FF59",
       "U+FF5A" >>

CASED_UPPER ==
    << <<"U+039C">>, <<"S", "S">>, <<"U+00C0">>, <<"U+00C1">>, <<"U+00C2">>,
       <<"U+00C3">>, <<"U+00C4">>, <<"U+00C5">>, <<"U+00C6">>, <<"U+00C7">>,
       <<"U+00C8">>, <<"U+00C9">>, <<"U+00CA">>, <<"U+00CB">>, <<"U+00CC">>,
       <<"U+00CD">>, <<"U+00CE">>, <<"U+00CF">>, <<"U+00D0">>, <<"U+00D1">>,
       <<"U+00D2">>, <<"U+00D3">>, <<"U+00D4">>, <<"U+00D5">>, <<"U+00D6">>,
       <<"U+00D8">>, <<"U+00D9">>, <<"U+00DA">>, <<"U+00DB">>, <<"U+00DC">>,
       <<"U+00DD">>, <<"U+00DE">>, <<"U+0178">>, <<"U+0100">>, <<"U+0102">>,
       <<"U+0104">>, <<"U+0106">>, <<"U+0108">>, <<"U+010A">>, <<"U+010C">>,
       <<"U+010E">>, <<"U+0110">>, <<"U+0112">>, <<"U+0114">>, <<"U+0116">>,
       <<"U+0118">>, <<"U+011A">>, <<"U+011C">>, <<"U+011E">>, <<"U+0120">>,
       <<"U+0122">>, <<"U+0124">>, <<"U+0126">>, <<"U+0128">>, <<"U+012A">>,
       <<"U+012C">>, <<"U+012E">>, <<"I">>, <<"U+0132">>, <<"U+0134">>,
       <<"U+0136">>, <<"U+0139">>, <<"U+013B">>, <<"U+013D">>, <<"U+013F">>,
       <<"U+0141">>, <<"U+0143">>, <<"U+0145">>, <<"U+0147">>, <<"U+02BC", "N">>,
       <<"U+014A">>, <<"U+014C">>, <<"U+014E">>, <<"U+0150">>, <<"U+0152">>,
       <<"U+0154">>, <<"U+0156">>, <<"U+0158">>, <<"U+015A">>, <<"U+015C">>,
       <<"U+015E">>, <<"U+0160">>, <<"U+0162">>, <<"U+0164">>, <<"U+0166">>,
       <<"U+0168">>, <<"U+016A">>, <<"U+016C">>, <<"U+016E">>, <<"U+0170">>,
       <<"U+0172">>, <<"U+0174">>, <<"U+0176">>, <<"U+0179">>, <<"U+017B">>,
       <<"U+017D">>, <<"S">>, <<"U+0243">>, <<"U+0182">>, <<"U+0184">>,
       <<"U+0187">>, <<"U+018B">>, <<"U+0191">>, <<"U+01F6">>, <<"U+0198">>,
       <<"U+023D">>, <<"U+A7DC">>, <<"U+0220">>, <<"U+01A0">>, <<"U+01A2">>,
       <<"U+01A4">>, <<"U+01A7">>, <<"U+01AC">>, <<"U+01AF">>, <<"U+01B3">>,
       <<"U+01B5">>, <<"U+01B8">>, <<"U+01BC">>, <<"U+01F7">>, <<"U+01C4">>,
       <<"U+01C4">>, <<"U+01C7">>, <<"U+01C7">>, <<"U+01CA">>, <<"U+01CA">>,
       <<"U+01CD">>, <<"U+01CF">>, <<"U+01D1">>, <<"U+01D3">>, <<"U+01D5">>,
       <<"U+01D7">>, <<"U+01D9">>, <<"U+01DB">>, <<"U+018E">>, <<"U+01DE">>,
       <<"U+01E0">>, <<"U+01E2">>, <<"U+01E4">>, <<"U+01E6">>, <<"U+01E8">>,
       <<"U+01EA">>, <<"U+01EC">>, <<"U+01EE">>, <<"J", "U+030C">>, <<"U+01F1">>,
       <<"U+01F1">>, <<"U+01F4">>, <<"U+01F8">>, <<"U+01FA">>, <<"U+01FC">>,
       <<"U+01FE">>, <<"U+0200">>, <<"U+0202">>, <<"U+0204">>, <<"U+0206">>,
       <<"U+0208">>, <<"U+020A">>, <<"U+020C">>, <<"U+020E">>, <<"U+0210">>,
       <<"U+0212">>, <<"U+0214">>, <<"U+0216">>, <<"U+0218">>, <<"U+021A">>,
       <<"U+021C">>, <<"U+021E">>, <<"U+0222">>, <<"U+0224">>, <<"U+0226">>,
       <<"U+0228">>, <<"U+022A">>, <<"U+022C">>, <<"U+022E">>, <<"U+0230">>,
       <<"U+0232">>, <<"U+023B">>, <<"U+2C7E">>, <<"U+2C7F">>, <<"U+0241">>,
       <<"U+0246">>, <<"U+0248">>, <<"U+024A">>, <<"U+024C">>, <<"U+024E">>,
       <<"U+2C6F">>, <<"U+2C6D">>, <<"U+2C70">>, <<"U+0181">>, <<"U+0186">>,
       <<"U+0189">>, <<"U+018A">>, <<"U+018F">>, <<"U+0190">>, <<"U+A7AB">>,
       <<"U+0193">>, <<"U+A7AC">>, <<"U+0194">>, <<"U+A7CB">>, <<"U+A78D">>,
       <<"U+A7AA">>, <<"U+0197">>, <<"U+0196">>, <<"U+A7AE">>, <<"U+2C62">>,
       <<"U+A7AD">>, <<"U+019C">>, <<"U+2C6E">>, <<"U+019D">>, <<"U+019F">>,
       <<"U+2C64">>, <<"U+01A6">>, <<"U+A7C5">>, <<"U+01A9">>, <<"U+A7B1">>,
       <<"U+01AE">>, <<"U+0244">>, <<"U+01B1">>, <<"U+01B2">>, <<"U+0245">>,
       <<"U+01B7">>, <<"U+A7B2">>, <<"U+A7B0">>, <<"U+0399">>, <<"U+0370">>,
       <<"U+0372">>, <<"U+0376">>, <<"U+03FD">>, <<"U+03FE">>, <<"U+03FF">>,
       <<"U+0399", "U+0308", "U+0301">>, <<"U+0386">>, <<"U+0388">>, <<"U+0389">>, <<"U+038A">>,
       <<"U+03A5", "U+0308", "U+0301">>, <<"U+0391">>, <<"U+0392">>, <<"U+0393">>, <<"U+0394">>,
       <<"U+0395">>, <<"U+0396">>, <<"U+0397">>, <<"U+0398">>, <<"U+0399">>,
       <<"U+039A">>, <<"U+039B">>, <<"U+039C">>, <<"U+039D">>, <<"U+039E">>,
       <<"U+039F">>, <<"U+03A0">>, <<"U+03A1">>, <<"U+03A3">>, <<"U+03A3">>,
       <<"U+03A4">>, <<"U+03A5">>, <<"U+03A6">>, <<"U+03A7">>, <<"U+03A8">>,
       <<"U+03A9">>, <<"U+03AA">>, <<"U+03AB">>, <<"U+038C">>, <<"U+038E">>,
       <<"U+038F">>, <<"U+0392">>, <<"U+0398">>, <<"U+03A6">>, <<"U+03A0">>,
       <<"U+03CF">>, <<"U+03D8">>, <<"U+03DA">>, <<"U+03DC">>, <<"U+03DE">>,
       <<"U+03E0">>, <<"U+03E2">>, <<"U+03E4">>, <<"U+03E6">>, <<"U+03E8">>,
       <<"U+03EA">>, <<"U+03EC">>, <<"U+03EE">>, <<"U+039A">>, <<"U+03A1">>,
       <<"U+03F9">>, <<"U+037F">>, <<"U+0395">>, <<"U+03F7">>, <<"U+03FA">>,
       <<"U+0410">>, <<"U+0411">>, <<"U+0412">>, <<"U+0413">>, <<"U+0414">>,
       <<"U+0415">>, <<"U+0416">>, <<"U+0417">>, <<"U+0418">>, <<"U+0419">>,
       <<"U+041A">>, <<"U+041B">>, <<"U+041C">>, <<"U+041D">>, <<"U+041E">>,
       <<"U+041F">>, <<"U+0420">>, <<"U+0421">>, <<"U+0422">>, <<"U+0423">>,
       <<"U+0424">>, <<"U+0425">>, <<"U+0426">>, <<"U+0427">>, <<"U+0428">>,
       <<"U+0429">>, <<"U+042A">>, <<"U+042B">>, <<"U+042C">>, <<"U+042D">>,
       <<"U+042E">>, <<"U+042F">>, <<"U+0400">>, <<"U+0401">>, <<"U+0402">>,
       <<"U+0403">>, <<"U+0404">>, <<"U+0405">>, <<"U+0406">>, <<"U+0407">>,
       <<"U+0408">>, <<"U+0409">>, <<"U+040A">>, <<"U+040B">>, <<"U+040C">>,
       <<"U+040D">>, <<"U+040E">>, <<"U+040F">>, <<"U+0460">>, <<"U+0462">>,
       <<"U+0464">>, <<"U+0466">>, <<"U+0468">>, <<"U+046A">>, <<"U+046C">>,
       <<"U+046E">>, <<"U+0470">>, <<"U+0472">>, <<"U+0474">>, <<"U+0476">>,
       <<"U+0478">>, <<"U+047A">>, <<"U+047C">>, <<"U+047E">>, <<"U+0480">>,
       <<"U+048A">>, <<"U+048C">>, <<"U+048E">>, <<"U+0490">>, <<"U+0492">>,
       <<"U+0494">>, <<"U+0496">>, <<"U+0498">>, <<"U+049A">>, <<"U+049C">>,
       <<"U+049E">>, <<"U+04A0">>, <<"U+04A2">>, <<"U+04A4">>, <<"U+04A6">>,
       <<"U+04A8">>, <<"U+04AA">>, <<"U+04AC">>, <<"U+04AE">>, <<"U+04B0">>,
       <<"U+04B2">>, <<"U+04B4">>, <<"U+04B6">>, <<"U+04B8">>, <<"U+04BA">>,
       <<"U+04BC">>, <<"U+04BE">>, <<"U+04C1">>, <<"U+04C3">>, <<"U+04C5">>,
       <<"U+04C7">>, <<"U+04C9">>, <<"U+04CB">>, <<"U+04CD">>, <<"U+04C0">>,
       <<"U+04D0">>, <<"U+04D2">>, <<"U+04D4">>, <<"U+04D6">>, <<"U+04D8">>,
       <<"U+04DA">>, <<"U+04DC">>, <<"U+04DE">>, <<"U+04E0">>, <<"U+04E2">>,
       <<"U+04E4">>, <<"U+04E6">>, <<"U+04E8">>, <<"U+04EA">>, <<"U+04EC">>,
       <<"U+04EE">>, <<"U+04F0">>, <<"U+04F2">>, <<"U+04F4">>, <<"U+04F6">>,
       <<"U+04F8">>, <<"U+04FA">>, <<"U+04FC">>, <<"U+04FE">>, <<"U+0500">>,
       <<"U+0502">>, <<"U+0504">>, <<"U+0506">>, <<"U+0508">>, <<"U+050A">>,
       <<"U+050C">>, <<"U+050E">>, <<"U+0510">>, <<"U+0512">>, <<"U+0514">>,
       <<"U+0516">>, <<"U+0518">>, <<"U+051A">>, <<"U+051C">>, <<"U+051E">>,
       <<"U+0520">>, <<"U+0522">>, <<"U+0524">>, <<"U+0526">>, <<"U+0528">>,
       <<"U+052A">>, <<"U+052C">>, <<"U+052E">>, <<"U+0531">>, <<"U+0532">>,
       <<"U+0533">>, <<"U+0534">>, <<"U+0535">>, <<"U+0536">>, <<"U+0537">>,
       <<"U+0538">>, <<"U+0539">>, <<"U+053A">>, <<"U+053B">>, <<"U+053C">>,
       <<"U+053D">>, <<"U+053E">>, <<"U+053F">>, <<"U+0540">>, <<"U+0541">>,
       <<"U+0542">>, <<"U+0543">>, <<"U+0544">>, <<"U+0545">>, <<"U+0546">>,
       <<"U+0547">>, <<"U+0548">>, <<"U+0549">>, <<"U+054A">>, <<"U+054B">>,
       <<"U+054C">>, <<"U+054D">>, <<"U+054E">>, <<"U+054F">>, <<"U+0550">>,
       <<"U+0551">>, <<"U+0552">>, <<"U+0553">>, <<"U+0554">>, <<"U+0555">>,
       <<"U+0556">>, <<"U+0535", "U+0552">>, <<"U+1C90">>, <<"U+1C91">>, <<"U+1C92">>,
       <<"U+1C93">>, <<"U+1C94">>, <<"U+1C95">>, <<"U+1C96">>, <<"U+1C97">>,
       <<"U+1C98">>, <<"U+1C99">>, <<"U+1C9A">>, <<"U+1C9B">>, <<"U+1C9C">>,
       <<"U+1C9D">>, <<"U+1C9E">>, <<"U+1C9F">>, <<"U+1CA0">>, <<"U+1CA1">>,
       <<"U+1CA2">>, <<"U+1CA3">>, <<"U+1CA4">>, <<"U+1CA5">>, <<"U+1CA6">>,
       <<"U+1CA7">>, <<"U+1CA8">>, <<"U+1CA9">>, <<"U+1CAA">>, <<"U+1CAB">>,
       <<"U+1CAC">>, <<"U+1CAD">>, <<"U+1CAE">>, <<"U+1CAF">>, <<"U+1CB0">>,
       <<"U+1CB1">>, <<"U+1CB2">>, <<"U+1CB3">>, <<"U+1CB4">>, <<"U+1CB5">>,
       <<"U+1CB6">>, <<"U+1CB7">>, <<"U+1CB8">>, <<"U+1CB9">>, <<"U+1CBA">>,
       <<"U+1CBD">>, <<"U+1CBE">>, <<"U+1CBF">>, <<"U+13F0">>, <<"U+13F1">>,
       <<"U+13F2">>, <<"U+13F3">>, <<"U+13F4">>, <<"U+13F5">>, <<"U+0412">>,
       <<"U+0414">>, <<"U+041E">>, <<"U+0421">>, <<"U+0422">>, <<"U+0422">>,
       <<"U+042A">>, <<"U+0462">>, <<"U+A64A">>, <<"U+1C89">>, <<"U+A77D">>,
       <<"U+2C63">>, <<"U+A7C6">>, <<"U+1E00">>, <<"U+1E02">>, <<"U+1E04">>,
       <<"U+1E06">>, <<"U+1E08">>, <<"U+1E0A">>, <<"U+1E0C">>, <<"U+1E0E">>,
       <<"U+1E10">>, <<"U+1E12">>, <<"U+1E14">>, <<"U+1E16">>, <<"U+1E18">>,
       <<"U+1E1A">>, <<"U+1E1C">>, <<"U+1E1E">>, <<"U+1E20">>, <<"U+1E22">>,
       <<"U+1E24">>, <<"U+1E26">>, <<"U+1E28">>, <<"U+1E2A">>, <<"U+1E2C">>,
       <<"U+1E2E">>, <<"U+1E30">>, <<"U+1E32">>, <<"U+1E34">>, <<"U+1E36">>,
       <<"U+1E38">>, <<"U+1E3A">>, <<"U+1E3C">>, <<"U+1E3E">>, <<"U+1E40">>,
       <<"U+1E42">>, <<"U+1E44">>, <<"U+1E46">>, <<"U+1E48">>, <<"U+1E4A">>,
       <<"U+1E4C">>, <<"U+1E4E">>, <<"U+1E50">>, <<"U+1E52">>, <<"U+1E54">>,
       <<"U+1E56">>, <<"U+1E58">>, <<"U+1E5A">>, <<"U+1E5C">>, <<"U+1E5E">>,
       <<"U+1E60">>, <<"U+1E62">>, <<"U+1E64">>, <<"U+1E66">>, <<"U+1E68">>,
       <<"U+1E6A">>, <<"U+1E6C">>, <<"U+1E6E">>, <<"U+1E70">>, <<"U+1E72">>,
       <<"U+1E74">>, <<"U+1E76">>, <<"U+1E78">>, <<"U+1E7A">>, <<"U+1E7C">>,
       <<"U+1E7E">>, <<"U+1E80">>, <<"U+1E82">>, <<"U+1E84">>, <<"U+1E86">>,
       <<"U+1E88">>, <<"U+1E8A">>, <<"U+1E8C">>, <<"U+1E8E">>, <<"U+1E90">>,
       <<"U+1E92">>, <<"U+1E94">>, <<"H", "U+0331">>, <<"T", "U+0308">>, <<"W", "U+030A">>,
       <<"Y", "U+030A">>, <<"A", "U+02BE">>, <<"U+1E60">>, <<"U+1EA0">>, <<"U+1EA2">>,
       <<"U+1EA4">>, <<"U+1EA6">>, <<"U+1EA8">>, <<"U+1EAA">>, <<"U+1EAC">>,
       <<"U+1EAE">>, <<"U+1EB0">>, <<"U+1EB2">>, <<"U+1EB4">>, <<"U+1EB6">>,
       <<"U+1EB8">>, <<"U+1EBA">>, <<"U+1EBC">>, <<"U+1EBE">>, <<"U+1EC0">>,
       <<"U+1EC2">>, <<"U+1EC4">>, <<"U+1EC6">>, <<"U+1EC8">>, <<"U+1ECA">>,
       <<"U+1ECC">>, <<"U+1ECE">>, <<"U+1ED0">>, <<"U+1ED2">>, <<"U+1ED4">>,
       <<"U+1ED6">>, <<"U+1ED8">>, <<"U+1EDA">>, <<"U+1EDC">>, <<"U+1EDE">>,
       <<"U+1EE0">>, <<"U+1EE2">>, <<"U+1EE4">>, <<"U+1EE6">>, <<"U+1EE8">>,
       <<"U+1EEA">>, <<"U+1EEC">>, <<"U+1EEE">>, <<"U+1EF0">>, <<"U+1EF2">>,
       <<"U+1EF4">>, <<"U+1EF6">>, <<"U+1EF8">>, <<"U+1EFA">>, <<"U+1EFC">>,
       <<"U+1EFE">>, <<"U+1F08">>, <<"U+1F09">>, <<"U+1F0A">>, <<"U+1F0B">>,
       <<"U+1F0C">>, <<"U+1F0D">>, <<"U+1F0E">>, <<"U+1F0F">>, <<"U+1F18">>,
       <<"U+1F19">>, <<"U+1F1A">>, <<"U+1F1B">>, <<"U+1F1C">>, <<"U+1F1D">>,
       <<"U+1F28">>, <<"U+1F29">>, <<"U+1F2A">>, <<"U+1F2B">>, <<"U+1F2C">>,
       <<"U+1F2D">>, <<"U+1F2E">>, <<"U+1F2F">>, <<"U+1F38">>, <<"U+1F39">>,
       <<"U+1F3A">>, <<"U+1F3B">>, <<"U+1F3C">>, <<"U+1F3D">>, <<"U+1F3E">>,
       <<"U+1F3F">>, <<"U+1F48">>, <<"U+1F49">>, <<"U+1F4A">>, <<"U+1F4B">>,
       <<"U+1F4C">>, <<"U+1F4D">>, <<"U+03A5", "U+0313">>, <<"U+1F59">>, <<"U+03A5", "U+0313", "U+0300">>,
       <<"U+1F5B">>, <<"U+03A5", "U+0313", "U+0301">>, <<"U+1F5D">>, <<"U+03A5", "U+0313", "U+0342">>, <<"U+1F5F">>,
       <<"U+1F68">>, <<"U+1F69">>, <<"U+1F6A">>, <<"U+1F6B">>, <<"U+1F6C">>,
       <<"U+1F6D">>, <<"U+1F6E">>, <<"U+1F6F">>, <<"U+1FBA">>, <<"U+1FBB">>,
       <<"U+1FC8">>, <<"U+1FC9">>, <<"U+1FCA">>, <<"U+1FCB">>, <<"U+1FDA">>,
       <<"U+1FDB">>, <<"U+1FF8">>, <<"U+1FF9">>, <<"U+1FEA">>, <<"U+1FEB">>,
       <<"U+1FFA">>, <<"U+1FFB">>, <<"U+1F08", "U+0399">>, <<"U+1F09", "U+0399">>, <<"U+1F0A", "U+0399">>,
       <<"U+1F0B", "U+0399">>, <<"U+1F0C", "U+0399">>, <<"U+1F0D", "U+0399">>, <<"U+1F0E", "U+0399">>, <<"U+1F0F", "U+0399">>,
       <<"U+1F08", "U+0399">>, <<"U+1F09", "U+0399">>, <<"U+1F0A", "U+0399">>, <<"U+1F0B", "U+0399">>, <<"U+1F0C", "U+0399">>,
       <<"U+1F0D", "U+0399">>, <<"U+1F0E", "U+0399">>, <<"U+1F0F", "U+0399">>, <<"U+1F28", "U+0399">>, <<"U+1F29", "U+0399">>,
       <<"U+1F2A", "U+0399">>, <<"U+1F2B", "U+0399">>, <<"U+1F2C", "U+0399">>, <<"U+1F2D", "U+0399">>, <<"U+1F2E", "U+0399">>,
       <<"U+1F2F", "U+0399">>, <<"U+1F28", "U+0399">>, <<"U+1F29", "U+0399">>, <<"U+1F2A", "U+0399">>, <<"U+1F2B", "U+0399">>,
       <<"U+1F2C", "U+0399">>, <<"U+1F2D", "U+0399">>, <<"U+1F2E", "U+0399">>, <<"U+1F2F", "U+0399">>, <<"U+1F68", "U+0399">>,
       <<"U+1F69", "U+0399">>, <<"U+1F6A", "U+0399">>, <<"U+1F6B", "U+0399">>, <<"U+1F6C", "U+0399">>, <<"U+1F6D", "U+0399">>,
       <<"U+1F6E", "U+0399">>, <<"U+1F6F", "U+0399">>, <<"U+1F68", "U+0399">>, <<"U+1F69", "U+0399">>, <<"U+1F6A", "U+0399">>,
       <<"U+1F6B", "U+0399">>, <<"U+1F6C", "U+0399">>, <<"U+1F6D", "U+0399">>, <<"U+1F6E", "U+0399">>, <<"U+1F6F", "U+0399">>,
       <<"U+1FB8">>, <<"U+1FB9">>, <<"U+1FBA", "U+0399">>, <<"U+0391", "U+0399">>, <<"U+0386", "U+0399">>,
       <<"U+0391", "U+0342">>, <<"U+0391", "U+0342", "U+0399">>, <<"U+0391", "U+0399">>, <<"U+0399">>, <<"U+1FCA", "U+0399">>,
       <<"U+0397", "U+0399">>, <<"U+0389", "U+0399">>, <<"U+0397", "U+0342">>, <<"U+0397", "U+0342", "U+0399">>, <<"U+0397", "U+0399">>,
       <<"U+1FD8">>, <<"U+1FD9">>, <<"U+0399", "U+0308", "U+0300">>, <<"U+0399", "U+0308", "U+0301">>, <<"U+0399", "U+0342">>,
       <<"U+0399", "U+0308", "U+0342">>, <<"U+1FE8">>, <<"U+1FE9">>, <<"U+03A5", "U+0308", "U+0300">>, <<"U+03A5", "U+0308", "U+0301">>,
       <<"U+03A1", "U+0313">>, <<"U+1FEC">>, <<"U+03A5", "U+0342">>, <<"U+03A5", "U+0308", "U+0342">>, <<"U+1FFA", "U+0399">>,
       <<"U+03A9", "U+0399">>, <<"U+038F", "U+0399">>, <<"U+03A9", "U+0342">>, <<"U+03A9", "U+0342", "U+0399">>, <<"U+03A9", "U+0399">>,
       <<"U+2132">>, <<"U+2160">>, <<"U+2161">>, <<"U+2162">>, <<"U+2163">>,
       <<"U+2164">>, <<"U+2165">>, <<"U+2166">>, <<"U+2167">>, <<"U+2168">>,
       <<"U+2169">>, <<"U+216A">>, <<"U+216B">>, <<"U+216C">>, <<"U+216D">>,
       <<"U+216E">>, <<"U+216F">>, <<"U+2183">>, <<"U+24B6">>, <<"U+24B7">>,
       <<"U+24B8">>, <<"U+24B9">>, <<"U+24BA">>, <<"U+24BB">>, <<"U+24BC">>,
       <<"U+24BD">>, <<"U+24BE">>, <<"U+24BF">>, <<"U+24C0">>, <<"U+24C1">>,
       <<"U+24C2">>, <<"U+24C3">>, <<"U+24C4">>, <<"U+24C5">>, <<"U+24C6">>,
       <<"U+24C7">>, <<"U+24C8">>, <<"U+24C9">>, <<"U+24CA">>, <<"U+24CB">>,
       <<"U+24CC">>, <<"U+24CD">>, <<"U+24CE">>, <<"U+24CF">>, <<"U+2C00">>,
       <<"U+2C01">>, <<"U+2C02">>, <<"U+2C03">>, <<"U+2C04">>, <<"U+2C05">>,
       <<"U+2C06">>, <<"U+2C07">>, <<"U+2C08">>, <<"U+2C09">>, <<"U+2C0A">>,
       <<"U+2C0B">>, <<"U+2C0C">>, <<"U+2C0D">>, <<"U+2C0E">>, <<"U+2C0F">>,
       <<"U+2C10">>, <<"U+2C11">>, <<"U+2C12">>, <<"U+2C13">>, <<"U+2C14">>,
       <<"U+2C15">>, <<"U+2C16">>, <<"U+2C17">>, <<"U+2C18">>, <<"U+2C19">>,
       <<"U+2C1A">>, <<"U+2C1B">>, <<"U+2C1C">>, <<"U+2C1D">>, <<"U+2C1E">>,
       <<"U+2C1F">>, <<"U+2C20">>, <<"U+2C21">>, <<"U+2C22">>, <<"U+2C23">>,
       <<"U+2C24">>, <<"U+2C25">>, <<"U+2C26">>, <<"U+2C27">>, <<"U+2C28">>,
       <<"U+2C29">>, <<"U+2C2A">>, <<"U+2C2B">>, <<"U+2C2C">>, <<"U+2C2D">>,
       <<"U+2C2E">>, <<"U+2C2F">>, <<"U+2C60">>, <<"U+023A">>, <<"U+023E">>,
       <<"U+2C67">>, <<"U+2C69">>, <<"U+2C6B">>, <<"U+2C72">>, <<"U+2C75">>,
       <<"U+2C80">>, <<"U+2C82">>, <<"U+2C84">>, <<"U+2C86">>, <<"U+2C88">>,
       <<"U+2C8A">>, <<"U+2C8C">>, <<"U+2C8E">>, <<"U+2C90">>, <<"U+2C92">>,
       <<"U+2C94">>, <<"U+2C96">>, <<"U+2C98">>, <<"U+2C9A">>, <<"U+2C9C">>,
       <<"U+2C9E">>, <<"U+2CA0">>, <<"U+2CA2">>, <<"U+2CA4">>, <<"U+2CA6">>,
       <<"U+2CA8">>, <<"U+2CAA">>, <<"U+2CAC">>, <<"U+2CAE">>, <<"U+2CB0">>,
       <<"U+2CB2">>, <<"U+2CB4">>, <<"U+2CB6">>, <<"U+2CB8">>, <<"U+2CBA">>,
       <<"U+2CBC">>, <<"U+2CBE">>, <<"U+2CC0">>, <<"U+2CC2">>, <<"U+2CC4">>,
       <<"U+2CC6">>, <<"U+2CC8">>, <<"U+2CCA">>, <<"U+2CCC">>, <<"U+2CCE">>,
       <<"U+2CD0">>, <<"U+2CD2">>, <<"U+2CD4">>, <<"U+2CD6">>, <<"U+2CD8">>,
       <<"U+2CDA">>, <<"U+2CDC">>, <<"U+2CDE">>, <<"U+2CE0">>, <<"U+2CE2">>,
       <<"U+2CEB">>, <<"U+2CED">>, <<"U+2CF2">>, <<"U+10A0">>, <<"U+10A1">>,
       <<"U+10A2">>, <<"U+10A3">>, <<"U+10A4">>, <<"U+10A5">>, <<"U+10A6">>,
       <<"U+10A7">>, <<"U+10A8">>, <<"U+10A9">>, <<"U+10AA">>, <<"U+10AB">>,
       <<"U+10AC">>, <<"U+10AD">>, <<"U+10AE">>, <<"U+10AF">>, <<"U+10B0">>,
       <<"U+10B1">>, <<"U+10B2">>, <<"U+10B3">>, <<"U+10B4">>, <<"U+10B5">>,
       <<"U+10B6">>, <<"U+10B7">>, <<"U+10B8">>, <<"U+10B9">>, <<"U+10BA">>,
       <<"U+10BB">>, <<"U+10BC">>, <<"U+10BD">>, <<"U+10BE">>, <<"U+10BF">>,
       <<"U+10C0">>, <<"U+10C1">>, <<"U+10C2">>, <<"U+10C3">>, <<"U+10C4">>,
       <<"U+10C5">>, <<"U+10C7">>, <<"U+10CD">>, <<"U+A640">>, <<"U+A642">>,
       <<"U+A644">>, <<"U+A646">>, <<"U+A648">>, <<"U+A64A">>, <<"U+A64C">>,
       <<"U+A64E">>, <<"U+A650">>, <<"U+A652">>, <<"U+A654">>, <<"U+A656">>,
       <<"U+A658">>, <<"U+A65A">>, <<"U+A65C">>, <<"U+A65E">>, <<"U+A660">>,
       <<"U+A662">>, <<"U+A664">>, <<"U+A666">>, <<"U+A668">>, <<"U+A66A">>,
       <<"U+A66C">>, <<"U+A680">>, <<"U+A682">>, <<"U+A684">>, <<"U+A686">>,
       <<"U+A688">>, <<"U+A68A">>, <<"U+A68C">>, <<"U+A68E">>, <<"U+A690">>,
       <<"U+A692">>, <<"U+A694">>, <<"U+A696">>, <<"U+A698">>, <<"U+A69A">>,
       <<"U+A722">>, <<"U+A724">>, <<"U+A726">>, <<"U+A728">>, <<"U+A72A">>,
       <<"U+A72C">>, <<"U+A72E">>, <<"U+A732">>, <<"U+A734">>, <<"U+A736">>,
       <<"U+A738">>, <<"U+A73A">>, <<"U+A73C">>, <<"U+A73E">>, <<"U+A740">>,
       <<"U+A742">>, <<"U+A744">>, <<"U+A746">>, <<"U+A748">>, <<"U+A74A">>,
       <<"U+A74C">>, <<"U+A74E">>, <<"U+A750">>, <<"U+A752">>, <<"U+A754">>,
       <<"U+A756">>, <<"U+A758">>, <<"U+A75A">>, <<"U+A75C">>, <<"U+A75E">>,
       <<"U+A760">>, <<"U+A762">>, <<"U+A764">>, <<"U+A766">>, <<"U+A768">>,
       <<"U+A76A">>, <<"U+A76C">>, <<"U+A76E">>, <<"U+A779">>, <<"U+A77B">>,
       <<"U+A77E">>, <<"U+A780">>, <<"U+A782">>, <<"U+A784">>, <<"U+A786">>,
       <<"U+A78B">>, <<"U+A790">>, <<"U+A792">>, <<"U+A7C4">>, <<"U+A796">>,
       <<"U+A798">>, <<"U+A79A">>, <<"U+A79C">>, <<"U+A79E">>, <<"U+A7A0">>,
       <<"U+A7A2">>, <<"U+A7A4">>, <<"U+A7A6">>, <<"U+A7A8">>, <<"U+A7B4">>,
       <<"U+A7B6">>, <<"U+A7B8">>, <<"U+A7BA">>, <<"U+A7BC">>, <<"U+A7BE">>,
       <<"U+A7C0">>, <<"U+A7C2">>, <<"U+A7C7">>, <<"U+A7C9">>, <<"U+A7CC">>,
       <<"U+A7CE">>, <<"U+A7D0">>, <<"U+A7D2">>, <<"U+A7D4">>, <<"U+A7D6">>,
       <<"U+A7D8">>, <<"U+A7DA">>, <<"U+A7F5">>, <<"U+A7B3">>, <<"U+13A0">>,
       <<"U+13A1">>, <<"U+13A2">>, <<"U+13A3">>, <<"U+13A4">>, <<"U+13A5">>,
       <<"U+13A6">>, <<"U+13A7">>, <<"U+13A8">>, <<"U+13A9">>, <<"U+13AA">>,
       <<"U+13AB">>, <<"U+13AC">>, <<"U+13AD">>, <<"U+13AE">>, <<"U+13AF">>,
       <<"U+13B0">>, <<"U+13B1">>, <<"U+13B2">>, <<"U+13B3">>, <<"U+13B4">>,
       <<"U+13B5">>, <<"U+13B6">>, <<"U+13B7">>, <<"U+13B8">>, <<"U+13B9">>,
       <<"U+13BA">>, <<"U+13BB">>, <<"U+13BC">>, <<"U+13BD">>, <<"U+13BE">>,
       <<"U+13BF">>, <<"U+13C0">>, <<"U+13C1">>, <<"U+13C2">>, <<"U+13C3">>,
       <<"U+13C4">>, <<"U+13C5">>, <<"U+13C6">>, <<"U+13C7">>, <<"U+13C8">>,
       <<"U+13C9">>, <<"U+13CA">>, <<"U+13CB">>, <<"U+13CC">>, <<"U+13CD">>,
       <<"U+13CE">>, <<"U+13CF">>, <<"U+13D0">>, <<"U+13D1">>, <<"U+13D2">>,
       <<"U+13D3">>, <<"U+13D4">>, <<"U+13D5">>, <<"U+13D6">>, <<"U+13D7">>,
       <<"U+13D8">>, <<"U+13D9">>, <<"U+13DA">>, <<"U+13DB">>, <<"U+13DC">>,
       <<"U+13DD">>, <<"U+13DE">>, <<"U+13DF">>, <<"U+13E0">>, <<"U+13E1">>,
       <<"U+13E2">>, <<"U+13E3">>, <<"U+13E4">>, <<"U+13E5">>, <<"U+13E6">>,
       <<"U+13E7">>, <<"U+13E8">>, <<"U+13E9">>, <<"U+13EA">>, <<"U+13EB">>,
       <<"U+13EC">>, <<"U+13ED">>, <<"U+13EE">>, <<"U+13EF">>, <<"F", "F">>,
       <<"F", "I">>, <<"F", "L">>, <<"F", "F", "I">>, <<"F", "F", "L">>, <<"S", "T">>,
       <<"S", "T">>, <<"U+0544", "U+0546">>, <<"U+0544", "U+0535">>, <<"U+0544", "U+053B">>, <<"U+054E", "U+0546">>,
       <<"U+0544", "U+053D">>, <<"U+FF21">>, <<"U+FF22">>, <<"U+FF23">>, <<"U+FF24">>,
       <<"U+FF25">>, <<"U+FF26">>, <<"U+FF27">>, <<"U+FF28">>, <<"U+FF29">>,
       <<"U+FF2A">>, <<"U+FF2B">>, <<"U+FF2C">>, <<"U+FF2D">>, <<"U+FF2E">>,
       <<"U+FF2F">>, <<"U+FF30">>, <<"U+FF31">>, <<"U+FF32">>, <<"U+FF33">>,
       <<"U+FF34">>, <<"U+FF35">>, <<"U+FF36">>, <<"U+FF37">>, <<"U+FF38">>,
       <<"U+FF39">>, <<"U+FF3A">> >>

\* the cased letters beyond the BMP, as surrogate pairs, and their capitals
ASTRAL_LOWER ==
    << <<"U+D801", "U+DC28">>, <<"U+D801", "U+DC29">>, <<"U+D801", "U+DC2A">>,
       <<"U+D801", "U+DC2B">>, <<"U+D801", "U+DC2C">>, <<"U+D801", "U+DC2D">>,
       <<"U+D801", "U+DC2E">>, <<"U+D801", "U+DC2F">>, <<"U+D801", "U+DC30">>,
       <<"U+D801", "U+DC31">>, <<"U+D801", "U+DC32">>, <<"U+D801", "U+DC33">>,
       <<"U+D801", "U+DC34">>, <<"U+D801", "U+DC35">>, <<"U+D801", "U+DC36">>,
       <<"U+D801", "U+DC37">>, <<"U+D801", "U+DC38">>, <<"U+D801", "U+DC39">>,
       <<"U+D801", "U+DC3A">>, <<"U+D801", "U+DC3B">>, <<"U+D801", "U+DC3C">>,
       <<"U+D801", "U+DC3D">>, <<"U+D801", "U+DC3E">>, <<"U+D801", "U+DC3F">>,
       <<"U+D801", "U+DC40">>, <<"U+D801", "U+DC41">>, <<"U+D801", "U+DC42">>,
       <<"U+D801", "U+DC43">>, <<"U+D801", "U+DC44">>, <<"U+D801", "U+DC45">>,
       <<"U+D801", "U+DC46">>, <<"U+D801", "U+DC47">>, <<"U+D801", "U+DC48">>,
       <<"U+D801", "U+DC49">>, <<"U+D801", "U+DC4A">>, <<"U+D801", "U+DC4B">>,
       <<"U+D801", "U+DC4C">>, <<"U+D801", "U+DC4D">>, <<"U+D801", "U+DC4E">>,
       <<"U+D801", "U+DC4F">>, <<"U+D801", "U+DCD8">>, <<"U+D801", "U+DCD9">>,
       <<"U+D801", "U+DCDA">>, <<"U+D801", "U+DCDB">>, <<"U+D801", "U+DCDC">>,
       <<"U+D801", "U+DCDD">>, <<"U+D801", "U+DCDE">>, <<"U+D801", "U+DCDF">>,
       <<"U+D801", "U+DCE0">>, <<"U+D801", "U+DCE1">>, <<"U+D801", "U+DCE2">>,
       <<"U+D801", "U+DCE3">>, <<"U+D801", "U+DCE4">>, <<"U+D801", "U+DCE5">>,
       <<"U+D801", "U+DCE6">>, <<"U+D801", "U+DCE7">>, <<"U+D801", "U+DCE8">>,
       <<"U+D801", "U+DCE9">>, <<"U+D801", "U+DCEA">>, <<"U+D801", "U+DCEB">>,
       <<"U+D801", "U+DCEC">>, <<"U+D801", "U+DCED">>, <<"U+D801", "U+DCEE">>,
       <<"U+D801", "U+DCEF">>, <<"U+D801", "U+DCF0">>, <<"U+D801", "U+DCF1">>,
       <<"U+D801", "U+DCF2">>, <<"U+D801", "U+DCF3">>, <<"U+D801", "U+DCF4">>,
       <<"U+D801", "U+DCF5">>, <<"U+D801", "U+DCF6">>, <<"U+D801", "U+DCF7">>,
       <<"U+D801", "U+DCF8">>, <<"U+D801", "U+DCF9">>, <<"U+D801", "U+DCFA">>,
       <<"U+D801", "U+DCFB">>, <<"U+D801", "U+DD97">>, <<"U+D801", "U+DD98">>,
       <<"U+D801", "U+DD99">>, <<"U+D801", "U+DD9A">>, <<"U+D801", "U+DD9B">>,
       <<"U+D801", "U+DD9C">>, <<"U+D801", "U+DD9D">>, <<"U+D801", "U+DD9E">>,
       <<"U+D801", "U+DD9F">>, <<"U+D801", "U+DDA0">>, <<"U+D801", "U+DDA1">>,
       <<"U+D801", "U+DDA3">>, <<"U+D801", "U+DDA4">>, <<"U+D801", "U+DDA5">>,
       <<"U+D801", "U+DDA6">>, <<"U+D801", "U+DDA7">>, <<"U+D801", "U+DDA8">>,
       <<"U+D801", "U+DDA9">>, <<"U+D801", "U+DDAA">>, <<"U+D801", "U+DDAB">>,
       <<"U+D801", "U+DDAC">>, <<"U+D801", "U+DDAD">>, <<"U+D801", "U+DDAE">>,
       <<"U+D801", "U+DDAF">>, <<"U+D801", "U+DDB0">>, <<"U+D801", "U+DDB1">>,
       <<"U+D801", "U+DDB3">>, <<"U+D801", "U+DDB4">>, <<"U+D801", "U+DDB5">>,
       <<"U+D801", "U+DDB6">>, <<"U+D801", "U+DDB7">>, <<"U+D801", "U+DDB8">>,
       <<"U+D801", "U+DDB9">>, <<"U+D801", "U+DDBB">>, <<"U+D801", "U+DDBC">>,
       <<"U+D803", "U+DCC0">>, <<"U+D803", "U+DCC1">>, <<"U+D803", "U+DCC2">>,
       <<"U+D803", "U+DCC3">>, <<"U+D803", "U+DCC4">>, <<"U+D803", "U+DCC5">>,
       <<"U+D803", "U+DCC6">>, <<"U+D803", "U+DCC7">>, <<"U+D803", "U+DCC8">>,
       <<"U+D803", "U+DCC9">>, <<"U+D803", "U+DCCA">>, <<"U+D803", "U+DCCB">>,
       <<"U+D803", "U+DCCC">>, <<"U+D803", "U+DCCD">>, <<"U+D803", "U+DCCE">>,
       <<"U+D803", "U+DCCF">>, <<"U+D803", "U+DCD0">>, <<"U+D803", "U+DCD1">>,
       <<"U+D803", "U+DCD2">>, <<"U+D803", "U+DCD3">>, <<"U+D803", "U+DCD4">>,
       <<"U+D803", "U+DCD5">>, <<"U+D803", "U+DCD6">>, <<"U+D803", "U+DCD7">>,
       <<"U+D803", "U+DCD8">>, <<"U+D803", "U+DCD9">>, <<"U+D803", "U+DCDA">>,
       <<"U+D803", "U+DCDB">>, <<"U+D803", "U+DCDC">>, <<"U+D803", "U+DCDD">>,
       <<"U+D803", "U+DCDE">>, <<"U+D803", "U+DCDF">>, <<"U+D803", "U+DCE0">>,
       <<"U+D803", "U+DCE1">>, <<"U+D803", "U+DCE2">>, <<"U+D803", "U+DCE3">>,
       <<"U+D803", "U+DCE4">>, <<"U+D803", "U+DCE5">>, <<"U+D803", "U+DCE6">>,
       <<"U+D803", "U+DCE7">>, <<"U+D803", "U+DCE8">>, <<"U+D803", "U+DCE9">>,
       <<"U+D803", "U+DCEA">>, <<"U+D803", "U+DCEB">>, <<"U+D803", "U+DCEC">>,
       <<"U+D803", "U+DCED">>, <<"U+D803", "U+DCEE">>, <<"U+D803", "U+DCEF">>,
       <<"U+D803", "U+DCF0">>, <<"U+D803", "U+DCF1">>, <<"U+D803", "U+DCF2">>,
       <<"U+D803", "U+DD70">>, <<"U+D803", "U+DD71">>, <<"U+D803", "U+DD72">>,
       <<"U+D803", "U+DD73">>, <<"U+D803", "U+DD74">>, <<"U+D803", "U+DD75">>,
       <<"U+D803", "U+DD76">>, <<"U+D803", "U+DD77">>, <<"U+D803", "U+DD78">>,
       <<"U+D803", "U+DD79">>, <<"U+D803", "U+DD7A">>, <<"U+D803", "U+DD7B">>,
       <<"U+D803", "U+DD7C">>, <<"U+D803", "U+DD7D">>, <<"U+D803", "U+DD7E">>,
       <<"U+D803", "U+DD7F">>, <<"U+D803", "U+DD80">>, <<"U+D803", "U+DD81">>,
       <<"U+D803", "U+DD82">>, <<"U+D803", "U+DD83">>, <<"U+D803", "U+DD84">>,
       <<"U+D803", "U+DD85">>, <<"U+D806", "U+DCC0">>, <<"U+D806", "U+DCC1">>,
       <<"U+D806", "U+DCC2">>, <<"U+D806", "U+DCC3">>, <<"U+D806", "U+DCC4">>,
       <<"U+D806", "U+DCC5">>, <<"U+D806", "U+DCC6">>, <<"U+D806", "U+DCC7">>,
       <<"U+D806", "U+DCC8">>, <<"U+D806", "U+DCC9">>, <<"U+D806", "U+DCCA">>,
       <<"U+D806", "U+DCCB">>, <<"U+D806", "U+DCCC">>, <<"U+D806", "U+DCCD">>,
       <<"U+D806", "U+DCCE">>, <<"U+D806", "U+DCCF">>, <<"U+D806", "U+DCD0">>,
       <<"U+D806", "U+DCD1">>, <<"U+D806", "U+DCD2">>, <<"U+D806", "U+DCD3">>,
       <<"U+D806", "U+DCD4">>, <<"U+D806", "U+DCD5">>, <<"U+D806", "U+DCD6">>,
       <<"U+D806", "U+DCD7">>, <<"U+D806", "U+DCD8">>, <<"U+D806", "U+DCD9">>,
       <<"U+D806", "U+DCDA">>, <<"U+D806", "U+DCDB">>, <<"U+D806", "U+DCDC">>,
       <<"U+D806", "U+DCDD">>, <<"U+D806", "U+DCDE">>, <<"U+D806", "U+DCDF">>,
       <<"U+D81B", "U+DE60">>, <<"U+D81B", "U+DE61">>, <<"U+D81B", "U+DE62">>,
       <<"U+D81B", "U+DE63">>, <<"U+D81B", "U+DE64">>, <<"U+D81B", "U+DE65">>,
       <<"U+D81B", "U+DE66">>, <<"U+D81B", "U+DE67">>, <<"U+D81B", "U+DE68">>,
       <<"U+D81B", "U+DE69">>, <<"U+D81B", "U+DE6A">>, <<"U+D81B", "U+DE6B">>,
       <<"U+D81B", "U+DE6C">>, <<"U+D81B", "U+DE6D">>, <<"U+D81B", "U+DE6E">>,
       <<"U+D81B", "U+DE6F">>, <<"U+D81B", "U+DE70">>, <<"U+D81B", "U+DE71">>,
       <<"U+D81B", "U+DE72">>, <<"U+D81B", "U+DE73">>, <<"U+D81B", "U+DE74">>,
       <<"U+D81B", "U+DE75">>, <<"U+D81B", "U+DE76">>, <<"U+D81B", "U+DE77">>,
       <<"U+D81B", "U+DE78">>, <<"U+D81B", "U+DE79">>, <<"U+D81B", "U+DE7A">>,
       <<"U+D81B", "U+DE7B">>, <<"U+D81B", "U+DE7C">>, <<"U+D81B", "U+DE7D">>,
       <<"U+D81B", "U+DE7E">>, <<"U+D81B", "U+DE7F">>, <<"U+D81B", "U+DEBB">>,
       <<"U+D81B", "U+DEBC">>, <<"U+D81B", "U+DEBD">>, <<"U+D81B", "U+DEBE">>,
       <<"U+D81B", "U+DEBF">>, <<"U+D81B", "U+DEC0">>, <<"U+D81B", "U+DEC1">>,
       <<"U+D81B", "U+DEC2">>, <<"U+D81B", "U+DEC3">>, <<"U+D81B", "U+DEC4">>,
       <<"U+D81B", "U+DEC5">>, <<"U+D81B", "U+DEC6">>, <<"U+D81B", "U+DEC7">>,
       <<"U+D81B", "U+DEC8">>, <<"U+D81B", "U+DEC9">>, <<"U+D81B", "U+DECA">>,
       <<"U+D81B", "U+DECB">>, <<"U+D81B", "U+DECC">>, <<"U+D81B", "U+DECD">>,
       <<"U+D81B", "U+DECE">>, <<"U+D81B", "U+DECF">>, <<"U+D81B", "U+DED0">>,
       <<"U+D81B", "U+DED1">>, <<"U+D81B", "U+DED2">>, <<"U+D81B", "U+DED3">>,
       <<"U+D83A", "U+DD22">>, <<"U+D83A", "U+DD23">>, <<"U+D83A", "U+DD24">>,
       <<"U+D83A", "U+DD25">>, <<"U+D83A", "U+DD26">>, <<"U+D83A", "U+DD27">>,
       <<"U+D83A", "U+DD28">>, <<"U+D83A", "U+DD29">>, <<"U+D83A", "U+DD2A">>,
       <<"U+D83A", "U+DD2B">>, <<"U+D83A", "U+DD2C">>, <<"U+D83A", "U+DD2D">>,
       <<"U+D83A", "U+DD2E">>, <<"U+D83A", "U+DD2F">>, <<"U+D83A", "U+DD30">>,
       <<"U+D83A", "U+DD31">>, <<"U+D83A", "U+DD32">>, <<"U+D83A", "U+DD33">>,
       <<"U+D83A", "U+DD34">>, <<"U+D83A", "U+DD35">>, <<"U+D83A", "U+DD36">>,
       <<"U+D83A", "U+DD37">>, <<"U+D83A", "U+DD38">>, <<"U+D83A", "U+DD39">>,
       <<"U+D83A", "U+DD3A">>, <<"U+D83A", "U+DD3B">>, <<"U+D83A", "U+DD3C">>,
       <<"U+D83A", "U+DD3D">>, <<"U+D83A", "U+DD3E">>, <<"U+D83A", "U+DD3F">>,
       <<"U+D83A", "U+DD40">>, <<"U+D83A", "U+DD41">>, <<"U+D83A", "U+DD42">>,
       <<"U+D83A", "U+DD43">> >>

ASTRAL_UPPER ==
    << <<"U+D801", "U+DC00">>, <<"U+D801", "U+DC01">>, <<"U+D801", "U+DC02">>,
       <<"U+D801", "U+DC03">>, <<"U+D801", "U+DC04">>, <<"U+D801", "U+DC05">>,
       <<"U+D801", "U+DC06">>, <<"U+D801", "U+DC07">>, <<"U+D801", "U+DC08">>,
       <<"U+D801", "U+DC09">>, <<"U+D801", "U+DC0A">>, <<"U+D801", "U+DC0B">>,
       <<"U+D801", "U+DC0C">>, <<"U+D801", "U+DC0D">>, <<"U+D801", "U+DC0E">>,
       <<"U+D801", "U+DC0F">>, <<"U+D801", "U+DC10">>, <<"U+D801", "U+DC11">>,
       <<"U+D801", "U+DC12">>, <<"U+D801", "U+DC13">>, <<"U+D801", "U+DC14">>,
       <<"U+D801", "U+DC15">>, <<"U+D801", "U+DC16">>, <<"U+D801", "U+DC17">>,
       <<"U+D801", "U+DC18">>, <<"U+D801", "U+DC19">>, <<"U+D801", "U+DC1A">>,
       <<"U+D801", "U+DC1B">>, <<"U+D801", "U+DC1C">>, <<"U+D801", "U+DC1D">>,
       <<"U+D801", "U+DC1E">>, <<"U+D801", "U+DC1F">>, <<"U+D801", "U+DC20">>,
       <<"U+D801", "U+DC21">>, <<"U+D801", "U+DC22">>, <<"U+D801", "U+DC23">>,
       <<"U+D801", "U+DC24">>, <<"U+D801", "U+DC25">>, <<"U+D801", "U+DC26">>,
       <<"U+D801", "U+DC27">>, <<"U+D801", "U+DCB0">>, <<"U+D801", "U+DCB1">>,
       <<"U+D801", "U+DCB2">>, <<"U+D801", "U+DCB3">>, <<"U+D801", "U+DCB4">>,
       <<"U+D801", "U+DCB5">>, <<"U+D801", "U+DCB6">>, <<"U+D801", "U+DCB7">>,
       <<"U+D801", "U+DCB8">>, <<"U+D801", "U+DCB9">>, <<"U+D801", "U+DCBA">>,
       <<"U+D801", "U+DCBB">>, <<"U+D801", "U+DCBC">>, <<"U+D801", "U+DCBD">>,
       <<"U+D801", "U+DCBE">>, <<"U+D801", "U+DCBF">>, <<"U+D801", "U+DCC0">>,
       <<"U+D801", "U+DCC1">>, <<"U+D801", "U+DCC2">>, <<"U+D801", "U+DCC3">>,
       <<"U+D801", "U+DCC4">>, <<"U+D801", "U+DCC5">>, <<"U+D801", "U+DCC6">>,
       <<"U+D801", "U+DCC7">>, <<"U+D801", "U+DCC8">>, <<"U+D801", "U+DCC9">>,
       <<"U+D801", "U+DCCA">>, <<"U+D801", "U+DCCB">>, <<"U+D801", "U+DCCC">>,
       <<"U+D801", "U+DCCD">>, <<"U+D801", "U+DCCE">>, <<"U+D801", "U+DCCF">>,
       <<"U+D801", "U+DCD0">>, <<"U+D801", "U+DCD1">>, <<"U+D801", "U+DCD2">>,
       <<"U+D801", "U+DCD3">>, <<"U+D801", "U+DD70">>, <<"U+D801", "U+DD71">>,
       <<"U+D801", "U+DD72">>, <<"U+D801", "U+DD73">>, <<"U+D801", "U+DD74">>,
       <<"U+D801", "U+DD75">>, <<"U+D801", "U+DD76">>, <<"U+D801", "U+DD77">>,
       <<"U+D801", "U+DD78">>, <<"U+D801", "U+DD79">>, <<"U+D801", "U+DD7A">>,
       <<"U+D801", "U+DD7C">>, <<"U+D801", "U+DD7D">>, <<"U+D801", "U+DD7E">>,
       <<"U+D801", "U+DD7F">>, <<"U+D801", "U+DD80">>, <<"U+D801", "U+DD81">>,
       <<"U+D801", "U+DD82">>, <<"U+D801", "U+DD83">>, <<"U+D801", "U+DD84">>,
       <<"U+D801", "U+DD85">>, <<"U+D801", "U+DD86">>, <<"U+D801", "U+DD87">>,
       <<"U+D801", "U+DD88">>, <<"U+D801", "U+DD89">>, <<"U+D801", "U+DD8A">>,
       <<"U+D801", "U+DD8C">>, <<"U+D801", "U+DD8D">>, <<"U+D801", "U+DD8E">>,
       <<"U+D801", "U+DD8F">>, <<"U+D801", "U+DD90">>, <<"U+D801", "U+DD91">>,
       <<"U+D801", "U+DD92">>, <<"U+D801", "U+DD94">>, <<"U+D801", "U+DD95">>,
       <<"U+D803", "U+DC80">>, <<"U+D803", "U+DC81">>, <<"U+D803", "U+DC82">>,
       <<"U+D803", "U+DC83">>, <<"U+D803", "U+DC84">>, <<"U+D803", "U+DC85">>,
       <<"U+D803", "U+DC86">>, <<"U+D803", "U+DC87">>, <<"U+D803", "U+DC88">>,
       <<"U+D803", "U+DC89">>, <<"U+D803", "U+DC8A">>, <<"U+D803", "U+DC8B">>,
       <<"U+D803", "U+DC8C">>, <<"U+D803", "U+DC8D">>, <<"U+D803", "U+DC8E">>,
       <<"U+D803", "U+DC8F">>, <<"U+D803", "U+DC90">>, <<"U+D803", "U+DC91">>,
       <<"U+D803", "U+DC92">>, <<"U+D803", "U+DC93">>, <<"U+D803", "U+DC94">>,
       <<"U+D803", "U+DC95">>, <<"U+D803", "U+DC96">>, <<"U+D803", "U+DC97">>,
       <<"U+D803", "U+DC98">>, <<"U+D803", "U+DC99">>, <<"U+D803", "U+DC9A">>,
       <<"U+D803", "U+DC9B">>, <<"U+D803", "U+DC9C">>, <<"U+D803", "U+DC9D">>,
       <<"U+D803", "U+DC9E">>, <<"U+D803", "U+DC9F">>, <<"U+D803", "U+DCA0">>,
       <<"U+D803", "U+DCA1">>, <<"U+D803", "U+DCA2">>, <<"U+D803", "U+DCA3">>,
       <<"U+D803", "U+DCA4">>, <<"U+D803", "U+DCA5">>, <<"U+D803", "U+DCA6">>,
       <<"U+D803", "U+DCA7">>, <<"U+D803", "U+DCA8">>, <<"U+D803", "U+DCA9">>,
       <<"U+D803", "U+DCAA">>, <<"U+D803", "U+DCAB">>, <<"U+D803", "U+DCAC">>,
       <<"U+D803", "U+DCAD">>, <<"U+D803", "U+DCAE">>, <<"U+D803", "U+DCAF">>,
       <<"U+D803", "U+DCB0">>, <<"U+D803", "U+DCB1">>, <<"U+D803", "U+DCB2">>,
       <<"U+D803", "U+DD50">>, <<"U+D803", "U+DD51">>, <<"U+D803", "U+DD52">>,
       <<"U+D803", "U+DD53">>, <<"U+D803", "U+DD54">>, <<"U+D803", "U+DD55">>,
       <<"U+D803", "U+DD56">>, <<"U+D803", "U+DD57">>, <<"U+D803", "U+DD58">>,
       <<"U+D803", "U+DD59">>, <<"U+D803", "U+DD5A">>, <<"U+D803", "U+DD5B">>,
       <<"U+D803", "U+DD5C">>, <<"U+D803", "U+DD5D">>, <<"U+D803", "U+DD5E">>,
       <<"U+D803", "U+DD5F">>, <<"U+D803", "U+DD60">>, <<"U+D803", "U+DD61">>,
       <<"U+D803", "U+DD62">>, <<"U+D803", "U+DD63">>, <<"U+D803", "U+DD64">>,
       <<"U+D803", "U+DD65">>, <<"U+D806", "U+DCA0">>, <<"U+D806", "U+DCA1">>,
       <<"U+D806", "U+DCA2">>, <<"U+D806", "U+DCA3">>, <<"U+D806", "U+DCA4">>,
       <<"U+D806", "U+DCA5">>, <<"U+D806", "U+DCA6">>, <<"U+D806", "U+DCA7">>,
       <<"U+D806", "U+DCA8">>, <<"U+D806", "U+DCA9">>, <<"U+D806", "U+DCAA">>,
       <<"U+D806", "U+DCAB">>, <<"U+D806", "U+DCAC">>, <<"U+D806", "U+DCAD">>,
       <<"U+D806", "U+DCAE">>, <<"U+D806", "U+DCAF">>, <<"U+D806", "U+DCB0">>,
       <<"U+D806", "U+DCB1">>, <<"U+D806", "U+DCB2">>, <<"U+D806", "U+DCB3">>,
       <<"U+D806", "U+DCB4">>, <<"U+D806", "U+DCB5">>, <<"U+D806", "U+DCB6">>,
       <<"U+D806", "U+DCB7">>, <<"U+D806", "U+DCB8">>, <<"U+D806", "U+DCB9">>,
       <<"U+D806", "U+DCBA">>, <<"U+D806", "U+DCBB">>, <<"U+D806", "U+DCBC">>,
       <<"U+D806", "U+DCBD">>, <<"U+D806", "U+DCBE">>, <<"U+D806", "U+DCBF">>,
       <<"U+D81B", "U+DE40">>, <<"U+D81B", "U+DE41">>, <<"U+D81B", "U+DE42">>,
       <<"U+D81B", "U+DE43">>, <<"U+D81B", "U+DE44">>, <<"U+D81B", "U+DE45">>,
       <<"U+D81B", "U+DE46">>, <<"U+D81B", "U+DE47">>, <<"U+D81B", "U+DE48">>,
       <<"U+D81B", "U+DE49">>, <<"U+D81B", "U+DE4A">>, <<"U+D81B", "U+DE4B">>,
       <<"U+D81B", "U+DE4C">>, <<"U+D81B", "U+DE4D">>, <<"U+D81B", "U+DE4E">>,
       <<"U+D81B", "U+DE4F">>, <<"U+D81B", "U+DE50">>, <<"U+D81B", "U+DE51">>,
       <<"U+D81B", "U+DE52">>, <<"U+D81B", "U+DE53">>, <<"U+D81B", "U+DE54">>,
       <<"U+D81B", "U+DE55">>, <<"U+D81B", "U+DE56">>, <<"U+D81B", "U+DE57">>,
       <<"U+D81B", "U+DE58">>, <<"U+D81B", "U+DE59">>, <<"U+D81B", "U+DE5A">>,
       <<"U+D81B", "U+DE5B">>, <<"U+D81B", "U+DE5C">>, <<"U+D81B", "U+DE5D">>,
       <<"U+D81B", "U+DE5E">>, <<"U+D81B", "U+DE5F">>, <<"U+D81B", "U+DEA0">>,
       <<"U+D81B", "U+DEA1">>, <<"U+D81B", "U+DEA2">>, <<"U+D81B", "U+DEA3">>,
       <<"U+D81B", "U+DEA4">>, <<"U+D81B", "U+DEA5">>, <<"U+D81B", "U+DEA6">>,
       <<"U+D81B", "U+DEA7">>, <<"U+D81B", "U+DEA8">>, <<"U+D81B", "U+DEA9">>,
       <<"U+D81B", "U+DEAA">>, <<"U+D81B", "U+DEAB">>, <<"U+D81B", "U+DEAC">>,
       <<"U+D81B", "U+DEAD">>, <<"U+D81B", "U+DEAE">>, <<"U+D81B", "U+DEAF">>,
       <<"U+D81B", "U+DEB0">>, <<"U+D81B", "U+DEB1">>, <<"U+D81B", "U+DEB2">>,
       <<"U+D81B", "U+DEB3">>, <<"U+D81B", "U+DEB4">>, <<"U+D81B", "U+DEB5">>,
       <<"U+D81B", "U+DEB6">>, <<"U+D81B", "U+DEB7">>, <<"U+D81B", "U+DEB8">>,
       <<"U+D83A", "U+DD00">>, <<"U+D83A", "U+DD01">>, <<"U+D83A", "U+DD02">>,
       <<"U+D83A", "U+DD03">>, <<"U+D83A", "U+DD04">>, <<"U+D83A", "U+DD05">>,
       <<"U+D83A", "U+DD06">>, <<"U+D83A", "U+DD07">>, <<"U+D83A", "U+DD08">>,
       <<"U+D83A", "U+DD09">>, <<"U+D83A", "U+DD0A">>, <<"U+D83A", "U+DD0B">>,
       <<"U+D83A", "U+DD0C">>, <<"U+D83A", "U+DD0D">>, <<"U+D83A", "U+DD0E">>,
       <<"U+D83A", "U+DD0F">>, <<"U+D83A", "U+DD10">>, <<"U+D83A", "U+DD11">>,
       <<"U+D83A", "U+DD12">>, <<"U+D83A", "U+DD13">>, <<"U+D83A", "U+DD14">>,
       <<"U+D83A", "U+DD15">>, <<"U+D83A", "U+DD16">>, <<"U+D83A", "U+DD17">>,
       <<"U+D83A", "U+DD18">>, <<"U+D83A", "U+DD19">>, <<"U+D83A", "U+DD1A">>,
       <<"U+D83A", "U+DD1B">>, <<"U+D83A", "U+DD1C">>, <<"U+D83A", "U+DD1D">>,
       <<"U+D83A", "U+DD1E">>, <<"U+D83A", "U+DD1F">>, <<"U+D83A", "U+DD20">>,
       <<"U+D83A", "U+DD21">> >>

CasedLowerSet == Range(CASED_LOWER)

AstralLowerSet == Range(ASTRAL_LOWER)

\* the capital of one code unit, which may be more than one code unit
UpperChar(c) ==
    IF c \in Range(LOWER)
       THEN << UPPER[CHOOSE i \in DOMAIN LOWER : LOWER[i] = c] >>
    ELSE IF c \in CasedLowerSet
       THEN CASED_UPPER[CHOOSE i \in DOMAIN CASED_LOWER : CASED_LOWER[i] = c]
    ELSE << c >>

\* String.prototype.toUpperCase: code point by code point, a surrogate pair
\* being one code point
RECURSIVE ToUpperCase(_)
ToUpperCase(s) ==
    IF s = <<>> THEN <<>>
    ELSE IF Len(s) >= 2 /\ <<s[1], s[2]>> \in AstralLowerSet
       THEN ASTRAL_UPPER[CHOOSE i \in DOMAIN ASTRAL_LOWER : ASTRAL_LOWER[i] = <<s[1], s[2]>>]
            \o ToUpperCase(SubSeq(s, 3, Len(s)))
    ELSE UpperChar(Head(s)) \o ToUpperCase(Tail(s))

\* faulty variant of SliceFirst: no cut
SliceFirstWhole(s, n) == s

\* s.slice(0, n), n >= 0
SliceFirst(s, n) == SubSeq(s, 1, IF Len(s) < n THEN Len(s) ELSE n)

\* s.slice(-n) and array.slice(-n), n > 0
SliceLast(s, n) == SubSeq(s, IF Len(s) > n THEN Len(s) - n + 1 ELSE 1, Len(s))

\* truthiness of a string (or of undefined)
Truthy(s) == s # <<>>

----------------------------------------------------------------------------
(* JavaScript numbers: Number(x) || 0 on the currentTime of a sync event.  *)
(* A number is carried in thousandths (of a second); smaller fractions are *)
(* cut off.  Infinity and -Infinity are the two ends of the integers of    *)
(* the model checker; finite numbers lie strictly between them.            *)

Infinity == 2147483647

\* the values a payload field can have
JSNum(n) == [type |-> "number", num |-> n, str |-> <<>>]
JSStr(s) == [type |-> "string", num |-> 0, str |-> s]
JSUndefined == [type |-> "undefined", num |-> 0, str |-> <<>>]
JSNull == [type |-> "null", num |-> 0, str |-> <<>>]
JSBool(b) == [type |-> "boolean", num |-> IF b THEN 1000 ELSE 0, str |-> <<>>]

NaN == [nan |-> TRUE, v |-> 0]
Num(n) == [nan |-> FALSE, v |-> n]

HEX_LOWER ==
    << "0","1","2","3","4","5","6","7","8","9","a","b","c","d","e","f" >>

HEX_UPPER ==
    << "0","1","2","3","4","5","6","7","8","9","A","B","C","D","E","F" >>

\* c is a digit of the base
IsDigitIn(c, base) ==
    \E d \in 0..(base - 1) : HEX_LOWER[d + 1] = c \/ HEX_UPPER[d + 1] = c

AllDigitsIn(s, base) == \A i \in 1..Len(s) : IsDigitIn(s[i], base)

RECURSIVE RadixValue(_, _)
RadixValue(s, base) ==
    IF s = <<>> THEN 0
    ELSE base * RadixValue(SubSeq(s, 1, Len(s) - 1), base)
         + (CHOOSE d \in 0..(base - 1) :
               HEX_LOWER[d + 1] = s[Len(s)] \/ HEX_UPPER[d + 1] = s[Len(s)])

RECURSIVE DigitsValue(_)
DigitsValue(s) ==
    IF s = <<>> THEN 0
    ELSE 10 * DigitsValue(SubSeq(s, 1, Len(s) - 1))
         + (CHOOSE d \in 0..9 : DIGITS[d + 1] = s[Len(s)])

RECURSIVE Pow10(_)
Pow10(n) == IF n = 0 THEN 1 ELSE 10 * Pow10(n - 1)

\* the number of decimal digits of n > 0
RECURSIVE DigitCount(_)
DigitCount(n) == IF n < 10 THEN 1 ELSE 1 + DigitCount(n \div 10)

\* the first position of s that holds a character of chars, 0 if none does
IndexOf(s, chars) ==
    IF \E i \in 1..Len(s) : s[i] \in chars
       THEN CHOOSE i \in 1..Len(s) : s[i] \in chars /\ \A k \in 1..(i - 1) : s[k] \notin chars
       ELSE 0

\* 0x..., 0o..., 0b... (StringNumericLiteral: NonDecimalIntegerLiteral)
RadixOf(t) ==
    IF Len(t) < 3 \/ t[1] # "0" THEN 0
    ELSE IF t[2] \in {"x", "X"} THEN 16
    ELSE IF t[2] \in {"o", "O"} THEN 8
    ELSE IF t[2] \in {"b", "B"} THEN 2
    ELSE 0

\* digits [. digits] [e [+-] digits], . digits [e [+-] digits]
\* (StringNumericLiteral: StrUnsignedDecimalLiteral but for Infinity)
UnsignedDecimal(body) ==
    LET ePos == IndexOf(body, {"e", "E"})
        mant == IF ePos = 0 THEN body ELSE SubSeq(body, 1, ePos - 1)
        expo == IF ePos = 0 THEN <<>> ELSE SubSeq(body, ePos + 1, Len(body))
        expSigned == expo # <<>> /\ expo[1] \in {"+", "-"}
        expDigits == IF expSigned THEN Tail(expo) ELSE expo
        dot == IndexOf(mant, {"."})
        int == IF dot = 0 THEN mant ELSE SubSeq(mant, 1, dot - 1)
        frac == IF dot = 0 THEN <<>> ELSE SubSeq(mant, dot + 1, Len(mant))
        valid == /\ AllDigitsIn(int, 10)
                 /\ AllDigitsIn(frac, 10)
                 /\ int # <<>> \/ frac # <<>>
                 /\ ePos = 0 \/ (expDigits # <<>> /\ AllDigitsIn(expDigits, 10))
        e == IF expSigned /\ expo[1] = "-"
                THEN 0 - DigitsValue(expDigits) ELSE DigitsValue(expDigits)
        digits == DigitsValue(int \o frac)
        shift == e - Len(frac) + 3
    IN IF ~valid THEN NaN
       ELSE IF digits = 0 THEN Num(0)
       ELSE IF DigitCount(digits) + e - Len(frac) > 309 THEN Num(Infinity)
       ELSE IF shift >= 0 THEN Num(digits * Pow10(shift))
       ELSE IF 0 - shift > 9 THEN Num(0)
       ELSE Num(digits \div Pow10(0 - shift))

\* [+-] Infinity, [+-] decimal
SignedDecimal(t) ==
    LET signed == t # <<>> /\ t[1] \in {"+", "-"}
        body == IF signed THEN Tail(t) ELSE t
        n == IF body = <<"I", "n", "f", "i", "n", "i", "t", "y">>
                THEN Num(Infinity) ELSE UnsignedDecimal(body)
    IN IF signed /\ t[1] = "-" /\ ~n.nan THEN Num(0 - n.v) ELSE n

\* Number(x): a number is itself, undefined is NaN, null is 0, true is 1 and
\* false 0; a string is trimmed and read as a StringNumericLiteral: "" is 0,
\* then a literal in base 16, 8 or 2, or a signed decimal literal or
\* Infinity; everything else is NaN.
ToNumber(x) ==
    IF x.type \in {"number", "boolean"} THEN Num(x.num)
    ELSE IF x.type = "undefined" THEN NaN
    ELSE IF x.type = "null" THEN Num(0)
    ELSE LET t == Trim(x.str)
         IN IF t = <<>> THEN Num(0)
            ELSE IF RadixOf(t) # 0
               THEN IF AllDigitsIn(SubSeq(t, 3, Len(t)), RadixOf(t))
                       THEN Num(1000 * RadixValue(SubSeq(t, 3, Len(t)), RadixOf(t)))
                       ELSE NaN
            ELSE SignedDecimal(t)

\* Number(x) || 0
NumberOrZero(x) ==
    LET n == ToNumber(x) IN IF n.nan \/ n.v = 0 THEN 0 ELSE n.v

\* a + b where b is finite
JSAdd(a, b) == IF a = Infinity \/ a = 0 - Infinity THEN a ELSE a + b

----------------------------------------------------------------------------
(* The Map rooms.  Iteration follows insertion order (keys).               *)

EmptyMap == [keys |-> <<>>, val |-> <<>>]

MapHas(m, k) == k \in DOMAIN m.val

MapGet(m, k) == m.val[k]

MapSet(m, k, v) ==
    IF MapHas(m, k)
       THEN [m EXCEPT !.val[k] = v]
       ELSE [keys |-> Append(m.keys, k), val |-> (k :> v) @@ m.val]

Codes(m) == DOMAIN m.val

----------------------------------------------------------------------------
(* Room registry and sync clock *)

NewRoom(roomCode, t) ==
    [ roomCode      |-> roomCode,
      videoId       |-> DEFAULT_VIDEO_ID,
      isPlaying     |-> FALSE,
      currentTime   |-> 0,
      lastUpdatedAt |-> t,
      chat          |-> <<>> ]

\* getOrCreateRoom: the registry after the call; the state it returns is
\* MapGet(getOrCreateRoom(m, roomCode, t), roomCode)
getOrCreateRoom(m, roomCode, t) ==
    IF ~MapHas(m, roomCode) THEN MapSet(m, roomCode, NewRoom(roomCode, t)) ELSE m

normalizeRoomCode(value) == ToUpperCase(Trim(value))

\* /^[A-Z0-9]{6}$/
isValidRoomCode(code) ==
    /\ Len(code) = 6
    /\ \A i \in 1..Len(code) : code[i] \in Range(UPPER) \cup Range(DIGITS)

\* draw[i] is Math.floor(Math.random() * ROOM_CHARSET.length) of iteration i
generateRoomCode(draw) ==
    [i \in 1..ROOM_CODE_LENGTH |-> ROOM_CHARSET[draw[i] + 1]]

\* The draws of successive generateRoomCode calls: stream.first for the
\* first stream.n calls, stream.then ever after.
StreamDraw(stream, attempts) ==
    IF attempts < stream.n THEN stream.first ELSE stream.then

\* the outcome of getUniqueRoomCode, with the value of its attempts counter
Thrown(attempts) == [thrown |-> TRUE, code |-> <<>>, attempts |-> attempts]
Returned(code, attempts) == [thrown |-> FALSE, code |-> code, attempts |-> attempts]

\* A draw that collided collides again while the stream repeats it (the
\* registry does not change inside the loop), so the loop is followed from
\* one change of the stream to the next: the attempt counter after the
\* collisions of a repeated draw.
NextAttempts(stream, attempts) ==
    IF attempts < stream.n /\ stream.n < MAX_CODE_ATTEMPTS
       THEN stream.n
       ELSE MAX_CODE_ATTEMPTS

RECURSIVE UniqueLoop(_, _, _)
UniqueLoop(m, stream, attempts) ==
    IF attempts < MAX_CODE_ATTEMPTS
       THEN LET code == generateRoomCode(StreamDraw(stream, attempts))
            IN IF ~MapHas(m, code)
                  THEN Returned(code, attempts)
                  ELSE UniqueLoop(m, stream, NextAttempts(stream, attempts))
       ELSE Thrown(attempts)

\* faulty variant of getUniqueRoomCode: the first code drawn, whether or not
\* it is registered
getUniqueRoomCodeUnchecked(m, stream) ==
    Returned(generateRoomCode(StreamDraw(stream, 0)), 0)

\* faulty variant of getUniqueRoomCode: the first code drawn is returned
\* when the attempts run out
getUniqueRoomCodeFallsBack(m, stream) ==
    IF UniqueLoop(m, stream, 0).thrown
       THEN Returned(generateRoomCode(StreamDraw(stream, 0)), MAX_CODE_ATTEMPTS)
       ELSE UniqueLoop(m, stream, 0)

getUniqueRoomCode(m, stream) == UniqueLoop(m, stream, 0)

\* faulty variants of getSyncedTime: the elapsed term with its operands
\* swapped; the elapsed term added whether or not the room is playing; the
\* stored currentTime returned as it is
getSyncedTimeSwapped(state, t) ==
    IF ~state.isPlaying
       THEN state.currentTime
       ELSE JSAdd(state.currentTime, ((state.lastUpdatedAt - t) * 1000) \div 1000)

getSyncedTimeAlwaysElapsed(state, t) ==
    JSAdd(state.currentTime, ((t - state.lastUpdatedAt) * 1000) \div 1000)

getSyncedTimeStale(state, t) == state.currentTime

\* elapsed = (Date.now() - lastUpdatedAt) / 1000 seconds, times 1000 for
\* the thousandths the play head is carried in
getSyncedTime(state, t) ==
    IF ~state.isPlaying
       THEN state.currentTime
       ELSE JSAdd(state.currentTime, ((t - state.lastUpdatedAt) * 1000) \div 1000)

buildSyncPayload(state, t) ==
    [ isPlaying   |-> state.isPlaying,
      currentTime |-> getSyncedTime(state, t),
      serverNow   |-> t ]

----------------------------------------------------------------------------
(* socket.io emits *)

\* sockets currently in a socket.io room
InRoom(adapter, roomCode) == { x \in Sockets : roomCode \in adapter[x] }

\* socket.emit(event, payload)
EmitSocket(s, event, payload) ==
    [event |-> event, scope |-> "socket", room |-> <<>>, to |-> {s}, payload |-> payload]

\* io.to(roomCode).emit(event, payload)
EmitRoom(adapter, roomCode, event, payload) ==
    [event |-> event, scope |-> "room", room |-> roomCode,
     to |-> InRoom(adapter, roomCode), payload |-> payload]

\* faulty variant of EmitOthers: io.to(roomCode) in place of
\* socket.to(roomCode), which reaches the sender too
EmitOthersAndSender(adapter, s, roomCode, event, payload) ==
    [event |-> event, scope |-> "others", room |-> roomCode,
     to |-> InRoom(adapter, roomCode), payload |-> payload]

\* socket.to(roomCode).emit(event, payload)
EmitOthers(adapter, s, roomCode, event, payload) ==
    [event |-> event, scope |-> "others", room |-> roomCode,
     to |-> InRoom(adapter, roomCode) \ {s}, payload |-> payload]

NoResponse == [status |-> 0, body |-> <<>>]

NoSocket == "none"

\* the handler that ran: its event, its socket, the room code it worked on
\* and the payload it was given
EventWith(type, s, roomCode, arg) ==
    [type |-> type, sock |-> s, room |-> roomCode, arg |-> arg]

Event(type, s, roomCode) == EventWith(type, s, roomCode, <<>>)

----------------------------------------------------------------------------
(* Inputs *)

\* Math.random() outcomes of one generateRoomCode call: "ABCDEF", "987654"
GenDraws == { <<0, 1, 2, 3, 4, 5>>, <<31, 30, 29, 28, 27, 26>> }

\* random streams of one getUniqueRoomCode call
Streams ==
    { st \in [first : GenDraws, n : {1, MAX_CODE_ATTEMPTS}, then : GenDraws] :
        st.first # st.then }

\* req.body.videoId of POST /api/rooms/create: absent, "\fv1 "
CreateVideoIds == { <<>>, <<"\f", "v", "1", " ">> }

\* :roomCode of GET /api/rooms/:roomCode
SnapshotCodes ==
    { <<"a","b","c","d","e","f">>, <<"9","8","7","6","5","4">>, <<"A","B","1">> }

\* "\fAnn" followed by a no-break space
Ann == <<"\f", "A", "n", "n", "U+00A0">>
Bo == <<"B", "o">>

\* join-room payloads: " abcdef " and "987654" name the two codes that can be
\* generated, "0O1I00" passes the format test and is never registered, "AB1"
\* is malformed, a form feed is an empty username
JoinPayloads ==
    { [roomCode |-> <<" ","a","b","c","d","e","f"," ">>, username |-> Ann],
      [roomCode |-> <<"9","8","7","6","5","4">>, username |-> Bo],
      [roomCode |-> <<"0","O","1","I","0","0">>, username |-> Ann],
      [roomCode |-> <<"A","B","1">>, username |-> Bo],
      [roomCode |-> <<"9","8","7","6","5","4">>, username |-> <<"\f">>] }

\* set-video payloads: missing id, "v2"
SetVideoIds == { <<>>, <<"v", "2">> }

\* currentTime of sync-play / sync-pause / sync-seek: 10 s, "abc"
TimeInputs == { JSNum(10000), JSStr(<<"a", "b", "c">>) }

\* a text of CHAT_TEXT_MAX + 2 characters between two blanks: "xx...xyy"
LongText ==
    <<" ">> \o [i \in 1..(CHAT_TEXT_MAX + 2) |->
                  IF i <= CHAT_TEXT_MAX THEN "x" ELSE "y"] \o <<" ">>

\* chat texts: blank, " hi ", the long text
ChatTexts == { <<" ", "\f">>, <<" ", "h", "i", " ">>, LongText }

\* Math.random().toString(36).slice(2, 8)
RandomSuffixes == { <<"k", "3", "x", "9", "q", "z">> }

----------------------------------------------------------------------------
(* History bookkeeping *)

HistSet(f, k, v) == (k :> v) @@ f

ChatSentOf(roomCode) ==
    IF roomCode \in DOMAIN chatSent THEN chatSent[roomCode] ELSE <<>>

SyncRecord(type, input, t) == [type |-> type, input |-> input, at |-> t]

----------------------------------------------------------------------------
(* State after construction *)

Init ==
    /\ rooms = EmptyMap
    /\ sockData = [s \in Sockets |-> [roomCode |-> <<>>, username |-> <<>>]]
    /\ adapterRooms = [s \in Sockets |-> {}]
    /\ connected = [s \in Sockets |-> TRUE]
    /\ now = 0
    /\ nextBeat = SYNC_BROADCAST_INTERVAL_MS
    /\ out = <<>>
    /\ res = NoResponse
    /\ ev = Event("init", NoSocket, <<>>)
    /\ lastSync = <<>>
    /\ chatSent = <<>>
    /\ nCreated = 0
    /\ nEvents = 0

\* the clock advances
Tick ==
    /\ now' = now + TickMs
    /\ out' = <<>>
    /\ res' = NoResponse
    /\ ev' = Event("tick", NoSocket, <<>>)
    /\ UNCHANGED <<rooms, sockData, adapterRooms, connected, nextBeat,
                   lastSync, chatSent, nCreated>>

----------------------------------------------------------------------------
(* HTTP endpoints *)

\* POST /api/rooms/create
CreateRoom(videoIdField, stream) ==
    LET unique == getUniqueRoomCode(rooms, stream)
        roomCode == unique.code
        requestedVideoId == Trim(videoIdField)
        m1 == getOrCreateRoom(rooms, roomCode, now)
        state == MapGet(m1, roomCode)
        seeded == IF Truthy(requestedVideoId)
                     THEN [state EXCEPT !.videoId = requestedVideoId,
                                        !.currentTime = 0,
                                        !.isPlaying = FALSE,
                                        !.lastUpdatedAt = now]
                     ELSE state
    IN /\ out' = <<>>
       /\ IF unique.thrown
             THEN /\ res' = [status |-> 500,
                             body |-> [message |-> "Failed to create room"]]
                  /\ ev' = EventWith("create-room", NoSocket, <<>>,
                                     [videoId |-> videoIdField, stream |-> stream,
                                      attempts |-> unique.attempts])
                  /\ UNCHANGED <<rooms, lastSync, chatSent, nCreated>>
             ELSE /\ rooms' = MapSet(m1, roomCode, seeded)
                  /\ res' = [status |-> 201,
                             body |-> [roomCode |-> roomCode,
                                       videoId |-> seeded.videoId]]
                  /\ ev' = EventWith("create-room", NoSocket, roomCode,
                                     [videoId |-> videoIdField, stream |-> stream,
                                      attempts |-> unique.attempts])
                  /\ lastSync' = HistSet(lastSync, roomCode,
                                         SyncRecord("create-room", JSNum(0), now))
                  /\ chatSent' = HistSet(chatSent, roomCode, ChatSentOf(roomCode))
                  /\ nCreated' = nCreated + 1
       /\ UNCHANGED <<sockData, adapterRooms, connected, now, nextBeat>>

\* GET /api/rooms/:roomCode
\* faulty variant of GetRoomSnapshot: getOrCreateRoom runs before the
\* rooms.has test, so a lookup registers the room it asks for
GetRoomSnapshotLazy(param) ==
    LET roomCode == normalizeRoomCode(param)
        m1 == getOrCreateRoom(rooms, roomCode, now)
        state == MapGet(m1, roomCode)
    IN /\ out' = <<>>
       /\ ev' = EventWith("get-room", NoSocket, roomCode, param)
       /\ IF ~isValidRoomCode(roomCode)
             THEN /\ res' = [status |-> 400,
                             body |-> [message |-> "Invalid room code format"]]
                  /\ UNCHANGED rooms
             ELSE /\ rooms' = m1
                  /\ IF ~MapHas(rooms, roomCode)
                        THEN res' = [status |-> 404,
                                     body |-> [message |-> "Room not found"]]
                        ELSE res' = [status |-> 200,
                                     body |-> [roomCode    |-> roomCode,
                                               videoId     |-> state.videoId,
                                               isPlaying   |-> state.isPlaying,
                                               currentTime |-> getSyncedTime(state, now)]]
       /\ UNCHANGED <<sockData, adapterRooms, connected, now, nextBeat,
                      lastSync, chatSent, nCreated>>

GetRoomSnapshot(param) ==
    LET roomCode == normalizeRoomCode(param)
        m1 == getOrCreateRoom(rooms, roomCode, now)
        state == MapGet(m1, roomCode)
    IN /\ out' = <<>>
       /\ ev' = EventWith("get-room", NoSocket, roomCode, param)
       /\ IF ~isValidRoomCode(roomCode)
             THEN /\ res' = [status |-> 400,
                             body |-> [message |-> "Invalid room code format"]]
                  /\ UNCHANGED rooms
             ELSE IF ~MapHas(rooms, roomCode)
             THEN /\ res' = [status |-> 404,
                             body |-> [message |-> "Room not found"]]
                  /\ UNCHANGED rooms
             ELSE /\ rooms' = m1
                  /\ res' = [status |-> 200,
                             body |-> [roomCode    |-> roomCode,
                                       videoId     |-> state.videoId,
                                       isPlaying   |-> state.isPlaying,
                                       currentTime |-> getSyncedTime(state, now)]]
       /\ UNCHANGED <<sockData, adapterRooms, connected, now, nextBeat,
                      lastSync, chatSent, nCreated>>

----------------------------------------------------------------------------
(* Socket event handlers *)

Joined(text) == text \o <<" ", "j", "o", "i", "n", "e", "d">>
Left(text) == text \o <<" ", "l", "e", "f", "t">>

\* faulty variant of JoinRoomExists: join-room without the existence test,
\* which lets getOrCreateRoom create the room on join
JoinRoomExistsLazy(m, normalizedCode) == TRUE

\* rooms.has(normalizedCode) of join-room
JoinRoomExists(m, normalizedCode) == MapHas(m, normalizedCode)

\* faulty variant of HasRoomCode: the handlers without their roomCode guard
HasRoomCodeAlways(data) == TRUE

\* the guard `if (!roomCode ...) return` of the handlers after join
HasRoomCode(data) == Truthy(data.roomCode)

\* faulty variant of ChatCap: slice(0, 200), which keeps the oldest entries
ChatCapKeepsOldest(chat) ==
    IF Len(chat) > CHAT_LOG_MAX THEN SliceFirst(chat, CHAT_LOG_MAX) ELSE chat

\* if (state.chat.length > 200) state.chat = state.chat.slice(-200)
ChatCap(chat) ==
    IF Len(chat) > CHAT_LOG_MAX THEN SliceLast(chat, CHAT_LOG_MAX) ELSE chat

\* faulty variant of SnapshotChat: the whole log
SnapshotChatWholeLog(chat) == chat

\* state.chat.slice(-50) of the join snapshot
SnapshotChat(chat) == SliceLast(chat, CHAT_SNAPSHOT)

\* socket.on("join-room")
JoinRoom(s, payload) ==
    LET normalizedCode == normalizeRoomCode(payload.roomCode)
        cleanName == Trim(payload.username)
        adapter1 == [adapterRooms EXCEPT ![s] = @ \cup {normalizedCode}]
        m1 == getOrCreateRoom(rooms, normalizedCode, now)
        state == MapGet(m1, normalizedCode)
    IN /\ connected[s]
       /\ ev' = EventWith("join-room", s, normalizedCode, payload)
       /\ res' = NoResponse
       /\ IF ~Truthy(cleanName) \/ ~isValidRoomCode(normalizedCode)
             THEN /\ out' = << EmitSocket(s, "join-error",
                                 [message |-> "Invalid room code or username"]) >>
                  /\ UNCHANGED <<rooms, sockData, adapterRooms>>
             ELSE IF ~JoinRoomExists(rooms, normalizedCode)
             THEN /\ out' = << EmitSocket(s, "join-error",
                                 [message |-> "Room does not exist"]) >>
                  /\ UNCHANGED <<rooms, sockData, adapterRooms>>
             ELSE /\ sockData' = [sockData EXCEPT ![s] =
                                    [roomCode |-> normalizedCode,
                                     username |-> cleanName]]
                  /\ adapterRooms' = adapter1
                  /\ rooms' = m1
                  /\ out' = << EmitSocket(s, "room-state",
                                 [roomCode    |-> normalizedCode,
                                  videoId     |-> state.videoId,
                                  isPlaying   |-> buildSyncPayload(state, now).isPlaying,
                                  currentTime |-> buildSyncPayload(state, now).currentTime,
                                  serverNow   |-> buildSyncPayload(state, now).serverNow,
                                  chat        |-> SnapshotChat(state.chat)]),
                               EmitRoom(adapter1, normalizedCode, "system-message",
                                 [text |-> Joined(cleanName), at |-> now]) >>
       /\ UNCHANGED <<connected, now, nextBeat, lastSync, chatSent, nCreated>>

\* socket.on("set-video")
SetVideo(s, videoId) ==
    LET roomCode == sockData[s].roomCode
        username == sockData[s].username
        m1 == getOrCreateRoom(rooms, roomCode, now)
        state == [MapGet(m1, roomCode) EXCEPT !.videoId = videoId,
                                              !.currentTime = 0,
                                              !.isPlaying = FALSE,
                                              !.lastUpdatedAt = now]
    IN /\ connected[s]
       /\ ev' = EventWith("set-video", s, roomCode, videoId)
       /\ res' = NoResponse
       /\ IF ~HasRoomCode(sockData[s]) \/ ~Truthy(videoId)
             THEN /\ out' = <<>>
                  /\ UNCHANGED <<rooms, lastSync>>
             ELSE /\ rooms' = MapSet(m1, roomCode, state)
                  /\ out' = << EmitRoom(adapterRooms, roomCode, "video-changed",
                                 [videoId |-> videoId, by |-> username, at |-> now]) >>
                  /\ lastSync' = HistSet(lastSync, roomCode,
                                         SyncRecord("set-video", JSNum(0), now))
       /\ UNCHANGED <<sockData, adapterRooms, connected, now, nextBeat,
                      chatSent, nCreated>>

\* the three sync handlers share their shape: write the play head, then
\* socket.to(roomCode).emit(type, buildSyncPayload(state))
SyncEvent(type, s, currentTime, state) ==
    LET roomCode == sockData[s].roomCode
        m1 == getOrCreateRoom(rooms, roomCode, now)
    IN /\ connected[s]
       /\ ev' = EventWith(type, s, roomCode, currentTime)
       /\ res' = NoResponse
       /\ IF ~HasRoomCode(sockData[s])
             THEN /\ out' = <<>>
                  /\ UNCHANGED <<rooms, lastSync>>
             ELSE /\ rooms' = MapSet(m1, roomCode, state)
                  /\ out' = << EmitOthers(adapterRooms, s, roomCode, type,
                                          buildSyncPayload(state, now)) >>
                  /\ lastSync' = HistSet(lastSync, roomCode,
                                         SyncRecord(type, currentTime, now))
       /\ UNCHANGED <<sockData, adapterRooms, connected, now, nextBeat,
                      chatSent, nCreated>>

\* the room state a handler works on: getOrCreateRoom(socket.data.roomCode)
StateOf(s) ==
    MapGet(getOrCreateRoom(rooms, sockData[s].roomCode, now), sockData[s].roomCode)

\* socket.on("sync-play")
SyncPlay(s, currentTime) ==
    SyncEvent("sync-play", s, currentTime,
              [StateOf(s) EXCEPT !.isPlaying = TRUE,
                                 !.currentTime = NumberOrZero(currentTime),
                                 !.lastUpdatedAt = now])

\* socket.on("sync-pause")
SyncPause(s, currentTime) ==
    SyncEvent("sync-pause", s, currentTime,
              [StateOf(s) EXCEPT !.isPlaying = FALSE,
                                 !.currentTime = NumberOrZero(currentTime),
                                 !.lastUpdatedAt = now])

\* faulty variant of SyncSeek: the seek pauses the room
SyncSeekPauses(s, currentTime) ==
    SyncEvent("sync-seek", s, currentTime,
              [StateOf(s) EXCEPT !.isPlaying = FALSE,
                                 !.currentTime = NumberOrZero(currentTime),
                                 !.lastUpdatedAt = now])

\* socket.on("sync-seek")
SyncSeek(s, currentTime) ==
    SyncEvent("sync-seek", s, currentTime,
              [StateOf(s) EXCEPT !.currentTime = NumberOrZero(currentTime),
                                 !.lastUpdatedAt = now])

\* socket.on("chat-message"); rnd is Math.random().toString(36).slice(2, 8)
ChatMessage(s, text, rnd) ==
    LET roomCode == sockData[s].roomCode
        username == sockData[s].username
        m1 == getOrCreateRoom(rooms, roomCode, now)
        state == MapGet(m1, roomCode)
        message == [ id       |-> [at |-> now, rnd |-> rnd],
                     username |-> username,
                     text     |-> SliceFirst(Trim(text), CHAT_TEXT_MAX),
                     at       |-> now ]
    IN /\ connected[s]
       /\ ev' = EventWith("chat-message", s, roomCode, text)
       /\ res' = NoResponse
       /\ IF ~HasRoomCode(sockData[s]) \/ ~Truthy(username) \/ ~Truthy(Trim(text))
             THEN /\ out' = <<>>
                  /\ UNCHANGED <<rooms, chatSent>>
             ELSE /\ rooms' = MapSet(m1, roomCode,
                                 [state EXCEPT !.chat = ChatCap(Append(state.chat, message))])
                  /\ out' = << EmitRoom(adapterRooms, roomCode, "chat-message", message) >>
                  /\ chatSent' = HistSet(chatSent, roomCode,
                                         Append(ChatSentOf(roomCode), message))
       /\ UNCHANGED <<sockData, adapterRooms, connected, now, nextBeat,
                      lastSync, nCreated>>

\* faulty variant of Disconnect: the room is dropped from the registry when
\* its last member leaves
MapDelete(m, k) ==
    [keys |-> SelectSeq(m.keys, LAMBDA x : x # k),
     val  |-> [c \in DOMAIN m.val \ {k} |-> m.val[c]]]

DisconnectDropsEmptyRoom(s) ==
    LET roomCode == sockData[s].roomCode
        username == sockData[s].username
        adapter1 == [adapterRooms EXCEPT ![s] = {}]
    IN /\ connected[s]
       /\ connected' = [connected EXCEPT ![s] = FALSE]
       /\ adapterRooms' = adapter1
       /\ ev' = Event("disconnect", s, roomCode)
       /\ res' = NoResponse
       /\ IF ~HasRoomCode(sockData[s]) \/ ~Truthy(username)
             THEN out' = <<>> /\ UNCHANGED rooms
             ELSE /\ out' = << EmitRoom(adapter1, roomCode, "system-message",
                                 [text |-> Left(username), at |-> now]) >>
                  /\ rooms' = IF InRoom(adapter1, roomCode) = {}
                                 THEN MapDelete(rooms, roomCode)
                                 ELSE rooms
       /\ UNCHANGED <<sockData, now, nextBeat, lastSync, chatSent, nCreated>>

\* socket.on("disconnect"): socket.io has removed the socket from its rooms
\* by the time the handler runs
Disconnect(s) ==
    LET roomCode == sockData[s].roomCode
        username == sockData[s].username
        adapter1 == [adapterRooms EXCEPT ![s] = {}]
    IN /\ connected[s]
       /\ connected' = [connected EXCEPT ![s] = FALSE]
       /\ adapterRooms' = adapter1
       /\ ev' = Event("disconnect", s, roomCode)
       /\ res' = NoResponse
       /\ IF ~HasRoomCode(sockData[s]) \/ ~Truthy(username)
             THEN out' = <<>>
             ELSE out' = << EmitRoom(adapter1, roomCode, "system-message",
                              [text |-> Left(username), at |-> now]) >>
       /\ UNCHANGED <<rooms, sockData, now, nextBeat, lastSync, chatSent, nCreated>>

----------------------------------------------------------------------------
(* Heartbeat: setInterval(..., SYNC_BROADCAST_INTERVAL_MS) *)

\* faulty variant of Heartbeat: rooms nobody is in are skipped
HeartbeatSkipsEmptyRooms ==
    /\ now >= nextBeat
    /\ nextBeat' = now + SYNC_BROADCAST_INTERVAL_MS
    /\ out' = LET live == SelectSeq(rooms.keys, LAMBDA c : InRoom(adapterRooms, c) # {})
              IN [i \in 1..Len(live) |->
                    EmitRoom(adapterRooms, live[i], "sync-state",
                             buildSyncPayload(MapGet(rooms, live[i]), now))]
    /\ res' = NoResponse
    /\ ev' = Event("heartbeat", NoSocket, <<>>)
    /\ UNCHANGED <<rooms, sockData, adapterRooms, connected, now,
                   lastSync, chatSent, nCreated>>

Heartbeat ==
    /\ now >= nextBeat
    /\ nextBeat' = now + SYNC_BROADCAST_INTERVAL_MS
    /\ out' = [i \in 1..Len(rooms.keys) |->
                 EmitRoom(adapterRooms, rooms.keys[i], "sync-state",
                          buildSyncPayload(MapGet(rooms, rooms.keys[i]), now))]
    /\ res' = NoResponse
    /\ ev' = Event("heartbeat", NoSocket, <<>>)
    /\ UNCHANGED <<rooms, sockData, adapterRooms, connected, now,
                   lastSync, chatSent, nCreated>>

----------------------------------------------------------------------------
(* Specifications *)

\* one more step
Step(Handler) ==
    /\ nEvents' = nEvents + 1
    /\ Handler

\* one more step, within the budget of Spec
Counted(Handler) ==
    /\ nEvents < MaxEvents
    /\ Step(Handler)

Next ==
    \/ Counted(Tick)
    \/ \E v \in CreateVideoIds, st \in Streams : Counted(CreateRoom(v, st))
    \/ \E c \in SnapshotCodes : Counted(GetRoomSnapshot(c))
    \/ \E s \in Sockets, p \in JoinPayloads : Counted(JoinRoom(s, p))
    \/ \E s \in Sockets, v \in SetVideoIds : Counted(SetVideo(s, v))
    \/ \E s \in Sockets, t \in TimeInputs : Counted(SyncPlay(s, t))
    \/ \E s \in Sockets, t \in TimeInputs : Counted(SyncPause(s, t))
    \/ \E s \in Sockets, t \in TimeInputs : Counted(SyncSeek(s, t))
    \/ \E s \in Sockets, text \in ChatTexts, rnd \in RandomSuffixes :
          Counted(ChatMessage(s, text, rnd))
    \/ \E s \in Sockets : Counted(Disconnect(s))
    \/ Counted(Heartbeat)

Spec == Init /\ [][Next]_vars

----------------------------------------------------------------------------
(* The server with a failing transport: io.to(roomCode).emit may throw     *)
(* inside the heartbeat. The callback of setInterval has no try/catch, so  *)
(* the exception leaves the for loop, is uncaught and ends the process.    *)

\* the heartbeat whose emit for the k-th room of rooms.entries() throws
HeartbeatEmitThrows(k) ==
    /\ now >= nextBeat
    /\ k \in 1..Len(rooms.keys)
    /\ nextBeat' = now + SYNC_BROADCAST_INTERVAL_MS
    /\ out' = [i \in 1..(k - 1) |->
                 EmitRoom(adapterRooms, rooms.keys[i], "sync-state",
                          buildSyncPayload(MapGet(rooms, rooms.keys[i]), now))]
    /\ res' = NoResponse
    /\ ev' = Event("uncaught", NoSocket, rooms.keys[k])
    /\ UNCHANGED <<rooms, sockData, adapterRooms, connected, now,
                   lastSync, chatSent, nCreated>>

\* the process runs until an exception is uncaught
Alive == ev.type # "uncaught"

NextFault ==
    \/ Alive /\ Next
    \/ \E k \in 1..2 : Alive /\ Counted(HeartbeatEmitThrows(k))

SpecFault == Init /\ [][NextFault]_vars

----------------------------------------------------------------------------
(* The two-room scenario: the rooms "ABCDEF" and "987654" are created, and *)
(* the two connections join them, in any order and any number of times,    *)
(* and send events to the room they are in.                                *)

RoomsJoins ==
    { [roomCode |-> <<" ","a","b","c","d","e","f"," ">>, username |-> Ann],
      [roomCode |-> <<"9","8","7","6","5","4">>, username |-> Bo] }

RoomsVideoId == <<"v", "2">>

\* "1e1", 10 seconds
RoomsTime == JSStr(<<"1", "e", "1">>)

RoomsText == <<" ", "h", "i", " ">>

\* the random stream of the creations yields "ABCDEF", then "987654"
RoomsStream ==
    [first |-> <<0, 1, 2, 3, 4, 5>>, n |-> 1, then |-> <<31, 30, 29, 28, 27, 26>>]

CountedRooms(Handler) ==
    /\ nEvents < MaxRoomEvents
    /\ Step(Handler)

NextRooms ==
    \/ nCreated < 2 /\ CountedRooms(CreateRoom(<<>>, RoomsStream))
    \/ \E s \in Sockets, p \in RoomsJoins :
          /\ MapHas(rooms, normalizeRoomCode(p.roomCode))
          /\ CountedRooms(JoinRoom(s, p))
    \/ \E s \in Sockets :
          /\ Truthy(sockData[s].roomCode)
          /\ \/ CountedRooms(SetVideo(s, RoomsVideoId))
             \/ CountedRooms(SyncPlay(s, RoomsTime))
             \/ CountedRooms(SyncPause(s, RoomsTime))
             \/ CountedRooms(SyncSeek(s, RoomsTime))
             \/ \E rnd \in RandomSuffixes : CountedRooms(ChatMessage(s, RoomsText, rnd))

SpecRooms == Init /\ [][NextRooms]_vars

----------------------------------------------------------------------------
(* The sequential-chat scenario: one room is created, one participant      *)
(* joins it and sends the messages "msg 0", "msg 1", ... one after the     *)
(* other; a second participant joins the room at any moment.               *)

RECURSIVE NumText(_)
NumText(k) ==
    IF k < 10 THEN <<DIGITS[k + 1]>>
    ELSE NumText(k \div 10) \o <<DIGITS[(k % 10) + 1]>>

ScenarioText(k) == <<"m", "s", "g", " ">> \o NumText(k)

ScenarioSocket == "s1"

ScenarioJoin ==
    [roomCode |-> <<" ","a","b","c","d","e","f"," ">>, username |-> Ann]

ScenarioRoom == normalizeRoomCode(ScenarioJoin.roomCode)

ScenarioLateSocket == "s2"

ScenarioLateJoin ==
    [roomCode |-> <<"A","B","C","D","E","F">>, username |-> Bo]

\* the random stream of the scenario's room creation yields "ABCDEF"
ScenarioStream ==
    [first |-> <<0, 1, 2, 3, 4, 5>>, n |-> 1, then |-> <<31, 30, 29, 28, 27, 26>>]

NextChat ==
    \/ nCreated = 0 /\ Step(CreateRoom(<<>>, ScenarioStream))
    \/ /\ MapHas(rooms, ScenarioRoom)
       /\ ~Truthy(sockData[ScenarioSocket].roomCode)
       /\ Step(JoinRoom(ScenarioSocket, ScenarioJoin))
    \/ /\ MapHas(rooms, ScenarioRoom)
       /\ ~Truthy(sockData[ScenarioLateSocket].roomCode)
       /\ Step(JoinRoom(ScenarioLateSocket, ScenarioLateJoin))
    \/ \E rnd \in RandomSuffixes :
          /\ Truthy(sockData[ScenarioSocket].roomCode)
          /\ Len(ChatSentOf(ScenarioRoom)) < MaxScenarioChat
          /\ Step(ChatMessage(ScenarioSocket,
                              ScenarioText(Len(ChatSentOf(ScenarioRoom))), rnd))

SpecChat == Init /\ [][NextChat]_vars

----------------------------------------------------------------------------
(* Claims *)

SyncTypes == {"sync-play", "sync-pause", "sync-seek"}

\* a handler ran in this step
Ran(type) == nEvents' = nEvents + 1 /\ ev'.type = type

\* the connections recorded as members of a room
Members(roomCode) ==
    { x \in Sockets : connected[x] /\ sockData[x].roomCode = roomCode }

\* C1: a join-room whose normalised code passes the format test and is not
\* registered adds no room, changes no room state, does not join the
\* sender (its socket.data and its socket.io rooms stay as they were) and
\* emits exactly one join-error, to the sender alone.
C1_JoinUnknownRoom ==
    [][ (Ran("join-room") /\ isValidRoomCode(ev'.room) /\ ~MapHas(rooms, ev'.room))
        => /\ rooms' = rooms
           /\ sockData' = sockData
           /\ adapterRooms' = adapterRooms
           /\ sockData'[ev'.sock].roomCode # ev'.room
           /\ ev'.room \notin adapterRooms'[ev'.sock]
           /\ Len(out') = 1
           /\ out'[1].event = "join-error"
           /\ out'[1].scope = "socket"
           /\ out'[1].to = {ev'.sock} ]_vars

C1_Witness ==
    /\ ev.type = "join-room"
    /\ isValidRoomCode(ev.room)
    /\ ~MapHas(rooms, ev.room)
    /\ Codes(rooms) # {}
    /\ Len(out) = 1 /\ out[1].event = "join-error"

\* C2: once a connection has joined a room, no later event on it changes
\* its roomCode or username.
C2_MembershipWriteOnce ==
    [][ \A s \in Sockets :
          Truthy(sockData[s].roomCode) => sockData'[s] = sockData[s] ]_vars

\* C3: a room's chat log never has more than 200 entries; after n accepted
\* messages it is the last min(n, 200) of them in send order; after 250
\* sequential messages it has 200 entries and starts with message 50.
C3_ChatLogWindow ==
    \A c \in Codes(rooms) :
        LET log == MapGet(rooms, c).chat
            sent == ChatSentOf(c)
            n == Len(sent)
        IN /\ Len(log) <= 200
           /\ Len(log) = (IF n > 200 THEN 200 ELSE n)
           /\ \A i \in 1..Len(log) : log[i] = sent[n - Len(log) + i]
           /\ n = 250 => /\ Len(log) = 200
                         /\ log[1].text = ScenarioText(50)
                         /\ log[200].text = ScenarioText(249)

C3_Witness ==
    /\ MapHas(rooms, ScenarioRoom)
    /\ Len(ChatSentOf(ScenarioRoom)) = 250
    /\ Len(MapGet(rooms, ScenarioRoom).chat) = 200

\* whether a step leaves the effective time of every room that is playing
\* before and after it non-decreasing, but for the steps that run one of
\* the handlers `excluded` on that room
MonotoneExcept(excluded) ==
    \A c \in Codes(rooms) :
        ( /\ MapHas(rooms', c)
          /\ MapGet(rooms, c).isPlaying
          /\ MapGet(rooms', c).isPlaying
          /\ now <= now'
          /\ ~(nEvents' = nEvents + 1 /\ ev'.type \in excluded /\ ev'.room = c) )
        => getSyncedTime(MapGet(rooms', c), now') >= getSyncedTime(MapGet(rooms, c), now)

\* C4 as stated: the effective time of a room is non-decreasing from one
\* read to the next while the room stays playing and no sync-seek or
\* sync-pause is applied to it, whatever else happens (further sync-play
\* events included).
C4_MonotoneUnlessSeekOrPause ==
    [][ MonotoneExcept({"sync-seek", "sync-pause"}) ]_vars

\* C4 amended: the effective time of a room is non-decreasing from one read
\* to the next while the room stays playing and no sync-seek, sync-pause
\* or sync-play is applied to it.
C4_MonotoneUnlessSyncEvent ==
    [][ MonotoneExcept({"sync-seek", "sync-pause", "sync-play"}) ]_vars

C4_Witness ==
    \E c \in Codes(rooms) :
        /\ MapGet(rooms, c).isPlaying
        /\ now > MapGet(rooms, c).lastUpdatedAt
        /\ ev.type = "heartbeat"
        /\ \E i \in 1..Len(out) :
              /\ out[i].room = c
              /\ out[i].payload.currentTime > MapGet(rooms, c).currentTime

\* the snapshot reads of room c made by the last handler: the room-state of
\* a join, the sync-state of a heartbeat, the body of GET /api/rooms/:code
SnapshotReads(c) ==
    { out[i].payload : i \in { j \in 1..Len(out) :
                                 /\ out[j].event \in {"room-state", "sync-state"}
                                 /\ (out[j].event = "room-state" => out[j].payload.roomCode = c)
                                 /\ (out[j].event = "sync-state" => out[j].room = c) } }
    \cup (IF ev.type = "get-room" /\ res.status = 200 /\ res.body.roomCode = c
             THEN {res.body} ELSE {})

\* C5: while the last event that wrote a room's play head is a sync-pause(t)
\* with numeric t, every snapshot read of the room reports isPlaying =
\* false and currentTime = t, at any later clock value.
C5_PauseRoundTrip ==
    \A c \in Codes(rooms) :
        ( /\ c \in DOMAIN lastSync
          /\ lastSync[c].type = "sync-pause"
          /\ lastSync[c].input.type = "number" )
        => /\ buildSyncPayload(MapGet(rooms, c), now).isPlaying = FALSE
           /\ buildSyncPayload(MapGet(rooms, c), now).currentTime = lastSync[c].input.num
           /\ \A r \in SnapshotReads(c) :
                 r.isPlaying = FALSE /\ r.currentTime = lastSync[c].input.num

C5_Witness ==
    \E c \in Codes(rooms) :
        /\ c \in DOMAIN lastSync
        /\ lastSync[c].type = "sync-pause"
        /\ lastSync[c].input.type = "number"
        /\ lastSync[c].input.num > 0
        /\ now > lastSync[c].at
        /\ SnapshotReads(c) # {}

\* C6: when the last event that wrote a room's play head is a sync-play(t)
\* at clock time t0, a join at clock time t0 + d gets a room-state with
\* isPlaying = true and currentTime = t + d.
C6_JoinSnapshotWhilePlaying ==
    ( /\ ev.type = "join-room"
      /\ Len(out) >= 1
      /\ out[1].event = "room-state"
      /\ ev.room \in DOMAIN lastSync
      /\ lastSync[ev.room].type = "sync-play"
      /\ lastSync[ev.room].input.type = "number" )
    => /\ out[1].to = {ev.sock}
       /\ out[1].payload.isPlaying = TRUE
       /\ out[1].payload.currentTime =
             lastSync[ev.room].input.num + (now - lastSync[ev.room].at)

C6_Witness ==
    /\ ev.type = "join-room"
    /\ Len(out) >= 1
    /\ out[1].event = "room-state"
    /\ ev.room \in DOMAIN lastSync
    /\ lastSync[ev.room].type = "sync-play"
    /\ lastSync[ev.room].input = JSNum(10000)
    /\ now = lastSync[ev.room].at + TickMs
    /\ out[1].payload.currentTime = 10000 + TickMs

\* C7: set-video, sync-play, sync-pause, sync-seek, chat-message and
\* disconnect from a connection that has not joined change no room and no
\* registry entry and emit nothing.
C7_UnjoinedNoOp ==
    [][ ( /\ nEvents' = nEvents + 1
          /\ ev'.type \in SyncTypes \cup {"set-video", "chat-message", "disconnect"}
          /\ ~Truthy(sockData[ev'.sock].roomCode) )
        => /\ rooms' = rooms
           /\ sockData' = sockData
           /\ out' = <<>>
           /\ res' = NoResponse ]_vars

C7_Witness ==
    /\ ev.type \in SyncTypes
    /\ ~Truthy(sockData[ev.sock].roomCode)
    /\ Codes(rooms) # {}
    /\ out = <<>>

\* the alphabet of room codes
CodeAlphabet ==
    { "A","B","C","D","E","F","G","H","J","K","L","M","N","P","Q","R",
      "S","T","U","V","W","X","Y","Z","2","3","4","5","6","7","8","9" }

WellFormedCode(code) ==
    Len(code) = 6 /\ \A i \in 1..Len(code) : code[i] \in CodeAlphabet

\* C8: a code returned by getUniqueRoomCode (the roomCode of a 201
\* response) has 6 characters of the alphabet and was not registered when
\* it was returned; every registered room has such a code, and the codes of
\* the rooms created are pairwise distinct (as many rooms as creations).
C8_UniqueWellFormedCodes ==
    /\ [][ (Ran("create-room") /\ res'.status = 201)
           => /\ WellFormedCode(res'.body.roomCode)
              /\ ~MapHas(rooms, res'.body.roomCode)
              /\ MapHas(rooms', res'.body.roomCode) ]_vars
    /\ [] /\ \A c \in Codes(rooms) : WellFormedCode(c) /\ MapGet(rooms, c).roomCode = c
          /\ Cardinality(Codes(rooms)) = nCreated
          /\ Len(rooms.keys) = nCreated
          /\ Range(rooms.keys) = Codes(rooms)

C8_Witness ==
    /\ nCreated = 2
    /\ Cardinality(Codes(rooms)) = 2
    /\ ev.type = "create-room"
    /\ res.status = 201

\* C9: only a successful room creation adds a registry entry, and no step
\* removes one.
C9_RegistryGrowsOnlyByCreate ==
    [][ /\ Codes(rooms) \subseteq Codes(rooms')
        /\ (Codes(rooms') # Codes(rooms)
              => /\ Ran("create-room")
                 /\ res'.status = 201
                 /\ Codes(rooms') = Codes(rooms) \cup {res'.body.roomCode}) ]_vars

C9_Witness ==
    \E c \in Codes(rooms) :
        /\ InRoom(adapterRooms, c) = {}
        /\ \E s \in Sockets : ~connected[s] /\ sockData[s].roomCode = c
        /\ ev.type = "disconnect"

\* C10: the payload of a sync-play, sync-pause or sync-seek of a joined
\* participant reaches every other member of its room and never the
\* sender.
C10_SyncToOthersOnly ==
    ( /\ ev.type \in SyncTypes
      /\ Truthy(sockData[ev.sock].roomCode) )
    => /\ Len(out) = 1
       /\ out[1].event = ev.type
       /\ out[1].room = sockData[ev.sock].roomCode
       /\ ev.sock \notin out[1].to
       /\ Members(sockData[ev.sock].roomCode) \ {ev.sock} \subseteq out[1].to
       /\ out[1].payload = buildSyncPayload(MapGet(rooms, out[1].room), now)

C10_Witness ==
    /\ ev.type \in SyncTypes
    /\ Truthy(sockData[ev.sock].roomCode)
    /\ Members(sockData[ev.sock].roomCode) \ {ev.sock} # {}
    /\ Len(out) = 1
    /\ out[1].to = Sockets \ {ev.sock}

\* the text of a chat payload without its leading and trailing blanks, cut
\* to 500 characters (<<>> when the text is blank)
FirstInk(text) ==
    CHOOSE i \in 1..Len(text) :
        ~IsSpace(text[i]) /\ \A k \in 1..(i - 1) : IsSpace(text[k])

LastInk(text) ==
    CHOOSE j \in 1..Len(text) :
        ~IsSpace(text[j]) /\ \A k \in (j + 1)..Len(text) : IsSpace(text[k])

Blank(text) == \A i \in 1..Len(text) : IsSpace(text[i])

StoredText(text) ==
    IF Blank(text) THEN <<>>
    ELSE LET i == FirstInk(text)
             j == LastInk(text)
         IN [k \in 1..(IF j - i + 1 > 500 THEN 500 ELSE j - i + 1) |-> text[i + k - 1]]

\* the rooms other than c are as they were
OthersUnchanged(c) ==
    /\ Codes(rooms') = Codes(rooms)
    /\ rooms'.keys = rooms.keys
    /\ \A d \in Codes(rooms) \ {c} : MapGet(rooms', d) = MapGet(rooms, d)

\* C11: a chat-message of a joined participant with a text that is not
\* blank appends exactly one message to the room's log, with the sender's
\* username and the trimmed text cut to 500 characters, and delivers that
\* message to every member of the room, the sender included; a blank text
\* appends nothing and emits nothing.
C11_ChatAppendAndEcho ==
    [][ (Ran("chat-message") /\ Truthy(sockData[ev'.sock].roomCode))
        => LET s == ev'.sock
               c == sockData[s].roomCode
               log == MapGet(rooms, c).chat
               logAfter == MapGet(rooms', c).chat
               m == logAfter[Len(logAfter)]
           IN IF Blank(ev'.arg)
                 THEN rooms' = rooms /\ out' = <<>>
                 ELSE /\ OthersUnchanged(c)
                      /\ Len(logAfter) = Len(log) + 1
                      /\ SubSeq(logAfter, 1, Len(log)) = log
                      /\ m.username = sockData[s].username
                      /\ m.text = StoredText(ev'.arg)
                      /\ Len(m.text) <= 500
                      /\ m.at = now
                      /\ Len(out') = 1
                      /\ out'[1].event = "chat-message"
                      /\ out'[1].payload = m
                      /\ s \in out'[1].to
                      /\ Members(c) \subseteq out'[1].to ]_vars

C11_Witness ==
    /\ ev.type = "chat-message"
    /\ ev.arg = LongText
    /\ Len(out) = 1
    /\ Len(out[1].payload.text) = 500
    /\ out[1].to = Sockets
    /\ \A x \in Sockets : sockData[x].roomCode = ev.room

\* the emits of a step that carry an event about a room
EmitsFor(o, event, roomCode) ==
    { i \in 1..Len(o) : o[i].event = event /\ o[i].room = roomCode }

\* C12: a heartbeat publishes exactly one sync-state per registered room,
\* the room's buildSyncPayload at the time of the beat, to all current
\* members of that room, and changes no room state, no membership and no
\* registry entry.
C12_HeartbeatPublishesEveryRoom ==
    [][ Ran("heartbeat")
        => /\ rooms' = rooms
           /\ sockData' = sockData
           /\ adapterRooms' = adapterRooms
           /\ connected' = connected
           /\ Len(out') = Cardinality(Codes(rooms))
           /\ \A c \in Codes(rooms) :
                /\ Cardinality(EmitsFor(out', "sync-state", c)) = 1
                /\ \A i \in EmitsFor(out', "sync-state", c) :
                     /\ out'[i].payload = buildSyncPayload(MapGet(rooms, c), now)
                     /\ out'[i].payload.serverNow = now
                     /\ out'[i].payload.isPlaying = MapGet(rooms, c).isPlaying
                     /\ Members(c) \subseteq out'[i].to ]_vars

C12_Witness ==
    /\ ev.type = "heartbeat"
    /\ Cardinality(Codes(rooms)) = 2
    /\ Len(out) = 2
    /\ \E c \in Codes(rooms) : Members(c) # {}
    /\ \E c \in Codes(rooms) : Members(c) = {}

\* C13: a join-room whose username is blank, or whose normalised code is
\* not 6 characters of the 32-symbol alphabet, is answered with exactly one
\* join-error of the invalid-input kind, to the sender alone, and changes
\* no room, no registry entry and no membership.
C13_MalformedJoinIsInvalidInput ==
    [][ (Ran("join-room") /\ (Blank(ev'.arg.username) \/ ~WellFormedCode(ev'.room)))
        => /\ out' = << [event |-> "join-error", scope |-> "socket", room |-> <<>>,
                         to |-> {ev'.sock},
                         payload |-> [message |-> "Invalid room code or username"]] >>
           /\ rooms' = rooms
           /\ sockData' = sockData
           /\ adapterRooms' = adapterRooms ]_vars

\* the code spelled by six draws out of the 32 symbols
Spelled(draw) == [i \in 1..6 |-> ROOM_CHARSET[draw[i] + 1]]

\* every code the stream yields within 1000 calls is registered
Exhausted(m, stream) ==
    /\ stream.n > 0 => Spelled(stream.first) \in Codes(m)
    /\ stream.n < 1000 => Spelled(stream.then) \in Codes(m)

\* C14: when every code drawn within 1000 attempts is registered, room
\* creation answers with a server error and the registry (its codes, their
\* order, every room's state) is as before the call; otherwise creation
\* succeeds before the 1000th attempt; the attempts counter never passes
\* 1000.
C14_CodeExhaustion ==
    [][ Ran("create-room")
        => /\ ev'.arg.attempts <= 1000
           /\ IF Exhausted(rooms, ev'.arg.stream)
                 THEN /\ res'.status = 500
                      /\ res'.body = [message |-> "Failed to create room"]
                      /\ ev'.arg.attempts = 1000
                      /\ rooms' = rooms
                      /\ nCreated' = nCreated
                      /\ out' = <<>>
                 ELSE /\ res'.status = 201
                      /\ ev'.arg.attempts < 1000 ]_vars

C14_Witness ==
    /\ ev.type = "create-room"
    /\ res.status = 500
    /\ ev.arg.attempts = 1000
    /\ ev.arg.stream.n = 1
    /\ Cardinality(Codes(rooms)) = 2

\* a text without its leading and trailing blanks (<<>> when it is blank)
Inked(text) ==
    IF Blank(text) THEN <<>> ELSE SubSeq(text, FirstInk(text), LastInk(text))

\* six characters, each a capital letter or a digit
SixCapitalsOrDigits(code) ==
    Len(code) = 6 /\ \A i \in 1..Len(code) : code[i] \in Range(UPPER) \cup Range(DIGITS)

\* the contract of a successful createRoom
CreatedAsAsked ==
    (Ran("create-room") /\ res'.status = 201)
    => LET c == res'.body.roomCode
           room == MapGet(rooms', c)
       IN /\ c \notin Codes(rooms)
          /\ Codes(rooms') = Codes(rooms) \cup {c}
          /\ rooms'.keys = Append(rooms.keys, c)
          /\ \A d \in Codes(rooms) : MapGet(rooms', d) = MapGet(rooms, d)
          /\ room.isPlaying = FALSE
          /\ room.currentTime = 0
          /\ room.chat = <<>>
          /\ room.videoId = IF Blank(ev'.arg.videoId)
                               THEN DEFAULT_VIDEO_ID
                               ELSE Inked(ev'.arg.videoId)
          /\ res'.body = [roomCode |-> c, videoId |-> room.videoId]

\* C15 as stated: a successful createRoom adds exactly one room under a
\* code that was not registered, paused at 0 with an empty chat log and the
\* trimmed requested videoId or the placeholder, leaves the other rooms as
\* they were and returns the room's code and videoId; getRoomSnapshot
\* answers NotFound exactly when the code is not registered and never
\* changes the registry.
C15_CreateAndSnapshotAsStated ==
    [][ /\ CreatedAsAsked
        /\ Ran("get-room")
           => /\ rooms' = rooms
              /\ res'.status = 404 <=> ev'.room \notin Codes(rooms) ]_vars

\* C15, amended: createRoom as stated; getRoomSnapshot never changes the
\* registry, answers the invalid-format error exactly when the normalised
\* code is not six capitals or digits, NotFound exactly when the
\* normalised code has that format and is not registered, and the room's
\* snapshot exactly when the normalised code is registered.
C15_CreateAndSnapshot ==
    [][ /\ CreatedAsAsked
        /\ Ran("get-room")
           => /\ rooms' = rooms
              /\ res'.status \in {200, 400, 404}
              /\ res'.status = 400 <=> ~SixCapitalsOrDigits(ev'.room)
              /\ res'.status = 404 <=>
                    (SixCapitalsOrDigits(ev'.room) /\ ev'.room \notin Codes(rooms))
              /\ res'.status = 200 =>
                    /\ ev'.room \in Codes(rooms)
                    /\ res'.body.roomCode = ev'.room
                    /\ res'.body.videoId = MapGet(rooms, ev'.room).videoId
                    /\ res'.body.isPlaying = MapGet(rooms, ev'.room).isPlaying ]_vars

C15_Witness ==
    /\ ev.type = "get-room"
    /\ res.status = 400
    /\ ev.room \notin Codes(rooms)
    /\ \E c \in Codes(rooms) : MapGet(rooms, c).videoId = <<"v", "1">>

\* C16: a join-room with a username that is not blank and the code of a
\* registered room changes no room's state, delivers exactly one room-state,
\* to the joiner alone, whose chat is the last min(50, length) entries of
\* the room's log in order, and one "joined" system-message to every member
\* of the room, the joiner included.
C16_JoinSnapshotAndNotice ==
    [][ (Ran("join-room") /\ ~Blank(ev'.arg.username) /\ ev'.room \in Codes(rooms))
        => LET s == ev'.sock
               c == ev'.room
               log == MapGet(rooms, c).chat
               k == IF Len(log) > 50 THEN 50 ELSE Len(log)
           IN /\ rooms' = rooms
              /\ sockData'[s].roomCode = c
              /\ Len(out') = 2
              /\ out'[1].event = "room-state"
              /\ out'[1].to = {s}
              /\ out'[1].payload.roomCode = c
              /\ out'[1].payload.videoId = MapGet(rooms, c).videoId
              /\ out'[1].payload.chat = [i \in 1..k |-> log[Len(log) - k + i]]
              /\ out'[2].event = "system-message"
              /\ out'[2].payload.text = Inked(ev'.arg.username) \o <<" ", "j", "o", "i", "n", "e", "d">>
              /\ s \in out'[2].to
              /\ \A x \in Sockets :
                   (connected'[x] /\ sockData'[x].roomCode = c) => x \in out'[2].to ]_vars

C16_Witness ==
    /\ ev.type = "join-room"
    /\ ev.sock = ScenarioLateSocket
    /\ Len(out) = 2
    /\ Len(MapGet(rooms, ScenarioRoom).chat) > 50
    /\ Len(out[1].payload.chat) = 50
    /\ out[2].to = {ScenarioSocket, ScenarioLateSocket}

\* C17: when publishing the sync-state of one room fails during a
\* heartbeat, every other registered room has its sync-state published by
\* that same heartbeat.
C17_HeartbeatIsolatesRooms ==
    ev.type = "uncaught"
    => \A c \in Codes(rooms) \ {ev.room} : EmitsFor(out, "sync-state", c) # {}

\* C18: a connection is subscribed to the broadcasts of at most one room,
\* the room recorded as its roomCode, and every emit made to a room
\* reaches only connections whose recorded roomCode is that room.
C18_BroadcastScope ==
    /\ \A s \in Sockets :
         /\ Cardinality(adapterRooms[s]) <= 1
         /\ adapterRooms[s] \subseteq {sockData[s].roomCode}
    /\ \A i \in 1..Len(out) :
         out[i].scope \in {"room", "others"}
         => \A x \in out[i].to : sockData[x].roomCode = out[i].room

RoomEvents == {"set-video", "sync-play", "sync-pause", "sync-seek", "chat-message"}

\* the fields of a room but for its chat log
SyncFields(room) ==
    [videoId |-> room.videoId, isPlaying |-> room.isPlaying,
     currentTime |-> room.currentTime, lastUpdatedAt |-> room.lastUpdatedAt]

\* what an event of a participant of room R may change
ChangesOnlyItsRoom ==
    \A s \in Sockets :
        (nEvents' = nEvents + 1 /\ ev'.type \in RoomEvents /\ ev'.sock = s
            /\ Truthy(sockData[s].roomCode))
        => LET R == sockData[s].roomCode
           IN /\ OthersUnchanged(R)
              /\ ev'.type # "chat-message"
                 => MapGet(rooms', R).chat = MapGet(rooms, R).chat
              /\ ev'.type = "chat-message"
                 => SyncFields(MapGet(rooms', R)) = SyncFields(MapGet(rooms, R))

\* what an event of a participant of room R may deliver
DeliversOnlyToItsRoom ==
    \A s \in Sockets :
        (nEvents' = nEvents + 1 /\ ev'.type \in RoomEvents /\ ev'.sock = s
            /\ Truthy(sockData[s].roomCode))
        => \A i \in 1..Len(out') : \A x \in out'[i].to :
              sockData[x].roomCode = sockData[s].roomCode

\* C19: set-video, sync-play, sync-pause, sync-seek and chat-message of a
\* participant joined to room R leave every other room's state unchanged
\* and deliver nothing to members of other rooms; within R the sync events
\* and set-video leave the chat log unchanged and chat-message leaves
\* videoId, isPlaying, currentTime and lastUpdatedAt unchanged.
C19_RoomsIndependent ==
    [][ ChangesOnlyItsRoom /\ DeliversOnlyToItsRoom ]_vars

\* the number a currentTime payload stands for, in thousandths of a second:
\* a number is itself, a string without a digit (and without the I of
\* Infinity) is not a number
Coerced(t) ==
    IF t.type = "number" THEN t.num
    ELSE IF t.type = "string" /\ \A i \in 1..Len(t.str) : t.str[i] \notin Range(DIGITS) \cup {"I"}
       THEN 0
    ELSE NumberOrZero(t)

\* the play head of room R after a sync event with payload t
TimeHandled(R, t) ==
    /\ MapGet(rooms', R).currentTime = Coerced(t)
    /\ MapGet(rooms', R).lastUpdatedAt = now
    /\ MapGet(rooms', R).videoId = MapGet(rooms, R).videoId

\* C20: for a joined participant, sync-seek(t) sets currentTime to the
\* number t stands for (0 when it is not a number) and lastUpdatedAt to now
\* and leaves isPlaying as it was; sync-play and sync-pause do the same and
\* set isPlaying to true and to false; set-video with an id sets videoId,
\* currentTime = 0, isPlaying = false and lastUpdatedAt = now and emits one
\* video-changed to every member of the room, the sender included;
\* set-video without an id changes nothing and emits nothing.
C20_SyncAndVideoEffects ==
    [][ \A s \in Sockets :
          (nEvents' = nEvents + 1 /\ ev'.sock = s /\ Truthy(sockData[s].roomCode))
          => LET R == sockData[s].roomCode
                 before == MapGet(rooms, R)
                 after == MapGet(rooms', R)
             IN /\ ev'.type = "sync-seek"
                   => TimeHandled(R, ev'.arg) /\ after.isPlaying = before.isPlaying
                /\ ev'.type = "sync-play"
                   => TimeHandled(R, ev'.arg) /\ after.isPlaying = TRUE
                /\ ev'.type = "sync-pause"
                   => TimeHandled(R, ev'.arg) /\ after.isPlaying = FALSE
                /\ (ev'.type = "set-video" /\ ev'.arg # <<>>)
                   => /\ after.videoId = ev'.arg
                      /\ after.currentTime = 0
                      /\ after.isPlaying = FALSE
                      /\ after.lastUpdatedAt = now
                      /\ after.chat = before.chat
                      /\ Len(out') = 1
                      /\ out'[1].event = "video-changed"
                      /\ out'[1].payload.videoId = ev'.arg
                      /\ s \in out'[1].to
                      /\ Members(R) \subseteq out'[1].to
                /\ (ev'.type = "set-video" /\ ev'.arg = <<>>)
                   => rooms' = rooms /\ out' = <<>> ]_vars

C20_Witness ==
    /\ ev.type = "sync-seek"
    /\ ev.arg = JSNum(10000)
    /\ now > 0
    /\ MapHas(rooms, ev.room)
    /\ MapGet(rooms, ev.room).isPlaying
    /\ MapGet(rooms, ev.room).currentTime = 10000
    /\ MapGet(rooms, ev.room).lastUpdatedAt = now

====
